---- MODULE Spec2Model ----
(***************************************************************************)
(* Model of soyart/depgraph (src/depgraph.go): a generic in-memory         *)
(* dependency graph kept as three Go maps (nodes, dependents,              *)
(* dependencies).  Go maps are modelled as TLA+ functions whose DOMAIN is  *)
(* the key set of the map; a Go Set[T] is a TLA+ set.  Every method of     *)
(* Graph[T] is an operator from the graph value before the call to the     *)
(* graph value (and return value) after it, and one action applies it.    *)
(***************************************************************************)
EXTENDS Integers, Sequences, FiniteSets, TLC

\* Number of distinct node values the callers draw their arguments from.
MaxNode == 3

Nodes == 1..MaxNode

\* Argument slot of an operation that takes fewer than two nodes.
NoNode == 0

VARIABLES
    nodes,          \* Graph.nodes        : Set[T]
    dependents,     \* Graph.dependents   : Edges[T], dependency -> dependents
    dependencies,   \* Graph.dependencies : Edges[T], dependent  -> dependencies
    pre,            \* history: the graph value before the last operation
    last,           \* history: the last operation, its arguments and result
    rt,             \* history: round-trip bookkeeping (Depend then Undepend)
    other           \* a value a method returned that the caller still holds

vars == <<nodes, dependents, dependencies, pre, last, rt, other>>

-----------------------------------------------------------------------------
(* Values *)

\* A map with no keys (make(Edges[T])).
EmptyEdges == [k \in {} |-> {}]

\* The Graph struct as one value.
Graph(ns, dts, dcs) == [nodes |-> ns, dependents |-> dts, dependencies |-> dcs]

\* The graph held in the variables.
G == Graph(nodes, dependents, dependencies)

New == Graph({}, EmptyEdges, EmptyEdges)

\* m[key] on a Go map of sets: the zero value (a nil set, no members) when
\* the key is absent.
Lookup(m, key) == IF key \in DOMAIN m THEN m[key] ELSE {}

\* delete(m, key)
DeleteKey(m, key) == [k \in (DOMAIN m) \ {key} |-> m[k]]

\* m[key] = value
Store(m, key, value) == [k \in (DOMAIN m) \cup {key} |-> IF k = key THEN value ELSE m[k]]

\* A Set[T] return value that may be the nil map.
NilSet == [nil |-> TRUE, set |-> {}]
SomeSet(s) == [nil |-> FALSE, set |-> s]

contains(m, key) == key \in m

\* Set.Contains; reading a nil map yields "absent".
SetContains(s, item) == contains(s.set, item)

\* Edges.ContainsKey
ContainsKey(e, key) == contains(DOMAIN e, key)

\* Edges.Contains
EdgesContains(e, key, item) == item \in Lookup(e, key)

\* Graph.Contains
Contains(g, node) == contains(g.nodes, node)

copyMap(m) == [k \in DOMAIN m |-> m[k]]

copySet(s) == {k : k \in s}

copyDep(deps) == [k \in DOMAIN deps |-> copySet(deps[k])]

Clone(g) == Graph(copySet(g.nodes), copyDep(g.dependents), copyDep(g.dependencies))

\* Faulty variant: the entry is overwritten instead of extended.
addToDep_Overwrite(deps, key, node) ==
    Store(deps, key, {node})

addToDep(deps, key, node) ==
    IF key \notin DOMAIN deps
    THEN Store(deps, key, {node})
    ELSE Store(deps, key, deps[key] \cup {node})

\* Faulty variant: the last member is deleted from the set and the key stays.
removeFromDep_KeepsEmpty(deps, key, target) ==
    LET ns == Lookup(deps, key) IN
    IF ~contains(ns, target) THEN deps
    ELSE Store(deps, key, ns \ {target})

\* Faulty variant: the key is dropped whatever the size of its set.
removeFromDep_DropsKey(deps, key, target) ==
    LET ns == Lookup(deps, key) IN
    IF ~contains(ns, target) THEN deps
    ELSE DeleteKey(deps, key)

\* Faulty variant: the key is dropped when its set has up to two members.
removeFromDep_DropsKeyAtTwo(deps, key, target) ==
    LET ns == Lookup(deps, key) IN
    IF ~contains(ns, target) THEN deps
    ELSE IF Cardinality(ns) > 2 THEN Store(deps, key, ns \ {target})
    ELSE DeleteKey(deps, key)

removeFromDep(deps, key, target) ==
    LET ns == Lookup(deps, key) IN
    IF ~contains(ns, target) THEN deps
    ELSE IF Cardinality(ns) # 1 THEN Store(deps, key, ns \ {target})
    ELSE DeleteKey(deps, key)

\* The content of the Set object that was deps[key] after
\* removeFromDep(deps, key, target): the last member is never deleted from the
\* set itself, the key is dropped from the map instead.
setAfterRemove(ns, target) ==
    IF ~contains(ns, target) THEN ns
    ELSE IF Cardinality(ns) # 1 THEN ns \ {target}
    ELSE ns

-----------------------------------------------------------------------------
(* Queries *)

\* Faulty variant: only the first frontier is explored.
search_OneLevel(edges, searchNext, found) ==
    found \cup UNION {Lookup(edges, next) : next \in searchNext}

\* The frontier-by-frontier search shared by Dependencies and Dependents.
RECURSIVE search(_, _, _)
search(edges, searchNext, found) ==
    IF searchNext = {} THEN found
    ELSE LET discovered == (UNION {Lookup(edges, next) : next \in searchNext}) \ found
         IN search(edges, discovered, found \cup discovered)

\* Faulty variant: the start node counts as discovered.
Dependencies_IncludesSelf(g, node) ==
    IF ~contains(g.nodes, node) THEN NilSet
    ELSE SomeSet(search(g.dependencies, {node}, {node}))

\* Faulty variant: only the direct dependencies are returned.
Dependencies_Direct(g, node) ==
    IF ~contains(g.nodes, node) THEN NilSet
    ELSE SomeSet(Lookup(g.dependencies, node))

\* Faulty variant: the test for an unknown node is missing.
Dependencies_NoNilCheck(g, node) ==
    SomeSet(search(g.dependencies, {node}, {}))

Dependencies(g, node) ==
    IF ~contains(g.nodes, node) THEN NilSet
    ELSE SomeSet(search(g.dependencies, {node}, {}))

\* Faulty variant: the search walks the dependencies index.
Dependents_WrongIndex(g, node) ==
    IF ~contains(g.nodes, node) THEN NilSet
    ELSE SomeSet(search(g.dependencies, {node}, {}))

Dependents(g, node) ==
    IF ~contains(g.nodes, node) THEN NilSet
    ELSE SomeSet(search(g.dependents, {node}, {}))

DependsOn(g, dependent, dependency) ==
    SetContains(Dependencies(g, dependent), dependency)

\* Faulty variant: the deep query is used where the direct one is meant.
DependsOnDirectly_Deep(g, dependent, dependency) ==
    DependsOn(g, dependent, dependency)

DependsOnDirectly(g, dependent, dependency) ==
    EdgesContains(g.dependencies, dependent, dependency)

\* Faulty variant: the nodes without dependents are returned.
Leaves_NoDependents(g) ==
    {node \in g.nodes : Cardinality(Lookup(g.dependents, node)) = 0}

Leaves(g) == {node \in g.nodes : Cardinality(Lookup(g.dependencies, node)) = 0}

-----------------------------------------------------------------------------
(* Edge maintenance *)

\* Faulty variant: the cycle check is missing.
Depend_NoCycleCheck(g, dependent, dependency) ==
    IF dependent = dependency
    THEN [g |-> g, err |-> "ErrDependsOnSelf"]
    ELSE [g |-> Graph(g.nodes \cup {dependency, dependent},
                      addToDep(g.dependents, dependency, dependent),
                      addToDep(g.dependencies, dependent, dependency)),
          err |-> "nil"]

\* Faulty variant: the self-dependency check is missing.
Depend_NoSelfCheck(g, dependent, dependency) ==
    IF DependsOn(g, dependency, dependent)
    THEN [g |-> g, err |-> "ErrCircularDependency"]
    ELSE [g |-> Graph(g.nodes \cup {dependency, dependent},
                      addToDep(g.dependents, dependency, dependent),
                      addToDep(g.dependencies, dependent, dependency)),
          err |-> "nil"]

\* Faulty variant: the cycle check asks whether the dependent already depends
\* on the dependency.
Depend_CheckReversed(g, dependent, dependency) ==
    IF dependent = dependency
    THEN [g |-> g, err |-> "ErrDependsOnSelf"]
    ELSE IF DependsOn(g, dependent, dependency)
    THEN [g |-> g, err |-> "ErrCircularDependency"]
    ELSE [g |-> Graph(g.nodes \cup {dependency, dependent},
                      addToDep(g.dependents, dependency, dependent),
                      addToDep(g.dependencies, dependent, dependency)),
          err |-> "nil"]

\* Faulty variant: an edge between two nodes that are already connected, in
\* either direction, is refused as circular.
Depend_CheckBothWays(g, dependent, dependency) ==
    IF dependent = dependency
    THEN [g |-> g, err |-> "ErrDependsOnSelf"]
    ELSE IF DependsOn(g, dependency, dependent) \/ DependsOn(g, dependent, dependency)
    THEN [g |-> g, err |-> "ErrCircularDependency"]
    ELSE [g |-> Graph(g.nodes \cup {dependency, dependent},
                      addToDep(g.dependents, dependency, dependent),
                      addToDep(g.dependencies, dependent, dependency)),
          err |-> "nil"]

Depend(g, dependent, dependency) ==
    IF dependent = dependency
    THEN [g |-> g, err |-> "ErrDependsOnSelf"]
    ELSE IF DependsOn(g, dependency, dependent)
    THEN [g |-> g, err |-> "ErrCircularDependency"]
    ELSE [g |-> Graph(g.nodes \cup {dependency, dependent},
                      addToDep(g.dependents, dependency, dependent),
                      addToDep(g.dependencies, dependent, dependency)),
          err |-> "nil"]

\* Faulty variant: the edge is removed from the dependents index only.
Undepend_OneSided(g, dependent, dependency) ==
    IF ~DependsOnDirectly(g, dependent, dependency)
    THEN [g |-> g, err |-> "ErrNoSuchDependency"]
    ELSE [g |-> Graph(g.nodes,
                      removeFromDep(g.dependents, dependency, dependent),
                      g.dependencies),
          err |-> "nil"]

\* Faulty variant: key and member are swapped for the dependents index.
Undepend_Swapped(g, dependent, dependency) ==
    IF ~DependsOnDirectly(g, dependent, dependency)
    THEN [g |-> g, err |-> "ErrNoSuchDependency"]
    ELSE [g |-> Graph(g.nodes,
                      removeFromDep(g.dependents, dependent, dependency),
                      removeFromDep(g.dependencies, dependent, dependency)),
          err |-> "nil"]

\* Faulty variant: the edge is removed from the dependencies index only.
Undepend_DependenciesOnly(g, dependent, dependency) ==
    IF ~DependsOnDirectly(g, dependent, dependency)
    THEN [g |-> g, err |-> "ErrNoSuchDependency"]
    ELSE [g |-> Graph(g.nodes,
                      g.dependents,
                      removeFromDep(g.dependencies, dependent, dependency)),
          err |-> "nil"]

Undepend(g, dependent, dependency) ==
    IF ~DependsOnDirectly(g, dependent, dependency)
    THEN [g |-> g, err |-> "ErrNoSuchDependency"]
    ELSE [g |-> Graph(g.nodes,
                      removeFromDep(g.dependents, dependency, dependent),
                      removeFromDep(g.dependencies, dependent, dependency)),
          err |-> "nil"]

-----------------------------------------------------------------------------
(* Removal *)

\* for key := range keys { removeFromDep(deps, key, target) }
RECURSIVE removeEach(_, _, _)
removeEach(deps, keys, target) ==
    IF keys = {} THEN deps
    ELSE LET key == CHOOSE k \in keys : TRUE
         IN removeEach(removeFromDep(deps, key, target), keys \ {key}, target)

\* Faulty variant: the target stays in the node set.
Delete_KeepsNode(g, target) ==
    LET dts1 == removeEach(g.dependents, Lookup(g.dependencies, target), target)
        dcs1 == DeleteKey(g.dependencies, target)
        dcs2 == removeEach(dcs1, Lookup(dts1, target), target)
        dts2 == DeleteKey(dts1, target)
    IN Graph(g.nodes, dts2, dcs2)

\* Faulty variant: the edges from the dependents of target are left behind.
Delete_KeepsDependentEdges(g, target) ==
    LET dts1 == removeEach(g.dependents, Lookup(g.dependencies, target), target)
        dcs1 == DeleteKey(g.dependencies, target)
        dts2 == DeleteKey(dts1, target)
    IN Graph(g.nodes \ {target}, dts2, dcs1)

Delete(g, target) ==
    LET dts1 == removeEach(g.dependents, Lookup(g.dependencies, target), target)
        dcs1 == DeleteKey(g.dependencies, target)
        dcs2 == removeEach(dcs1, Lookup(dts1, target), target)
        dts2 == DeleteKey(dts1, target)
    IN Graph(g.nodes \ {target}, dts2, dcs2)

\* Faulty variant: the dependencies index is tested instead of dependents.
Remove_ChecksDependencies(g, target) ==
    IF ContainsKey(g.dependencies, target)
    THEN [g |-> g, err |-> "ErrDependentExists"]
    ELSE [g |-> Delete(g, target), err |-> "nil"]

\* Faulty variant: the test for dependents is missing.
Remove_NoCheck(g, target) ==
    [g |-> Delete(g, target), err |-> "nil"]

Remove(g, target) ==
    IF ContainsKey(g.dependents, target)
    THEN [g |-> g, err |-> "ErrDependentExists"]
    ELSE [g |-> Delete(g, target), err |-> "nil"]

\* The orders in which a range loop can visit the members of a Go map.
RECURSIVE Perms(_)
Perms(S) ==
    IF S = {} THEN {<<>>}
    ELSE UNION {{<<x>> \o p : p \in Perms(S \ {x})} : x \in S}

\* Faulty variant: the item is read and the queue is left as it was.
popQueue_KeepsQueue(queue) ==
    IF Len(queue) = 0
    THEN [item |-> NoNode, queue |-> queue, panic |-> "empty queue"]
    ELSE [item |-> queue[1], queue |-> queue, panic |-> "none"]

popQueue(queue) ==
    IF Len(queue) = 0
    THEN [item |-> NoNode, queue |-> queue, panic |-> "empty queue"]
    ELSE [item |-> queue[1], queue |-> Tail(queue), panic |-> "none"]

\* Faulty variant: the dependents are cut off but never enqueued.
RECURSIVE severDependents_NoEnqueue(_, _, _, _, _)
severDependents_NoEnqueue(g, queue, order, current, msg) ==
    IF order = <<>> THEN [g |-> g, queue |-> queue, panic |-> "none"]
    ELSE LET dependent == Head(order)
             r == Undepend(g, dependent, current)
         IN IF r.err # "nil"
            THEN [g |-> r.g, queue |-> queue, panic |-> msg]
            ELSE severDependents_NoEnqueue(r.g, queue, Tail(order), current, msg)

\* Faulty variant: the loop stops after the first dependent it visits.
severDependents_FirstOnly(g, queue, order, current, msg) ==
    IF order = <<>> THEN [g |-> g, queue |-> queue, panic |-> "none"]
    ELSE LET dependent == Head(order)
             r == Undepend(g, dependent, current)
         IN IF r.err # "nil"
            THEN [g |-> r.g, queue |-> queue, panic |-> msg]
            ELSE [g |-> r.g, queue |-> Append(queue, dependent), panic |-> "none"]

\* for dependent := range g.dependents[current] { Undepend; enqueue },
\* visiting the dependents in the given order.
RECURSIVE severDependents(_, _, _, _, _)
severDependents(g, queue, order, current, msg) ==
    IF order = <<>> THEN [g |-> g, queue |-> queue, panic |-> "none"]
    ELSE LET dependent == Head(order)
             r == Undepend(g, dependent, current)
         IN IF r.err # "nil"
            THEN [g |-> r.g, queue |-> queue, panic |-> msg]
            ELSE severDependents(r.g, Append(queue, dependent), Tail(order), current, msg)

\* Faulty variant: the edges to the dependencies of current are left in place.
forceSeverDependencies_Skip(g, order, current) == [g |-> g, panic |-> "none"]

\* for dependency := range g.dependencies[current] of RemoveForce.
RECURSIVE forceSeverDependencies(_, _, _)
forceSeverDependencies(g, order, current) ==
    IF order = <<>> THEN [g |-> g, panic |-> "none"]
    ELSE LET dependency == Head(order) IN
         IF ~ContainsKey(g.dependents, dependency)
         THEN [g |-> g, panic |-> "bug"]
         ELSE LET r == Undepend(g, current, dependency) IN
              IF r.err # "nil"
              THEN [g |-> r.g, panic |-> "bug: remove-force undepend current->dependency"]
              ELSE forceSeverDependencies(r.g, Tail(order), current)

\* The queue loop of RemoveForce: the set of outcomes over all iteration orders.
RECURSIVE forceLoop(_, _)
forceLoop(g, queue) ==
    IF Len(queue) = 0 THEN {[g |-> g, panic |-> "none"]}
    ELSE LET p == popQueue(queue)
             current == p.item
         IN IF p.panic # "none" THEN {[g |-> g, panic |-> p.panic]}
            ELSE UNION {
              LET s1 == severDependents(g, p.queue, o1, current,
                                        "bug: remove-force undepend dependent->current")
              IN IF s1.panic # "none" THEN {[g |-> s1.g, panic |-> s1.panic]}
                 ELSE UNION {
                   LET s2 == forceSeverDependencies(s1.g, o2, current)
                   IN IF s2.panic # "none" THEN {[g |-> s2.g, panic |-> s2.panic]}
                      ELSE forceLoop(Graph(s2.g.nodes \ {current}, s2.g.dependents,
                                           s2.g.dependencies), s1.queue)
                   : o2 \in Perms(Lookup(s1.g.dependencies, current))}
              : o1 \in Perms(Lookup(g.dependents, current))}

RemoveForce(g, target) == forceLoop(g, <<target>>)

\* Faulty variant: a dependency is cut off but never enqueued.
RECURSIVE autoSeverDependencies_Never(_, _, _, _)
autoSeverDependencies_Never(g, queue, order, current) ==
    IF order = <<>> THEN [g |-> g, queue |-> queue, panic |-> "none"]
    ELSE LET dependency == Head(order) IN
         IF ~ContainsKey(g.dependents, dependency)
         THEN [g |-> g, queue |-> queue, panic |-> "bug"]
         ELSE LET r == Undepend(g, current, dependency)
              IN IF r.err # "nil"
                 THEN [g |-> r.g, queue |-> queue,
                       panic |-> "bug autoremove undepend current->dependency"]
                 ELSE autoSeverDependencies_Never(r.g, queue, Tail(order), current)

\* The rounds of the queue loop of RemoveForce, one record per dequeued node
\* with the graph before and after its round: the set of such sequences over
\* all iteration orders.  s1 and s2 are the outcomes of the two range loops.
RECURSIVE forceRuns(_, _)
forceRunsAfter(g, current, s1, s2) ==
    IF s1.panic # "none"
    THEN {<<[current |-> current, before |-> g, after |-> s1.g, panic |-> s1.panic]>>}
    ELSE IF s2.panic # "none"
    THEN {<<[current |-> current, before |-> g, after |-> s2.g, panic |-> s2.panic]>>}
    ELSE {<<[current |-> current, before |-> g,
             after |-> Graph(s2.g.nodes \ {current}, s2.g.dependents, s2.g.dependencies),
             panic |-> "none"]>> \o rest :
            rest \in forceRuns(Graph(s2.g.nodes \ {current}, s2.g.dependents,
                                     s2.g.dependencies), s1.queue)}

forceRuns(g, queue) ==
    IF Len(queue) = 0 THEN {<<>>}
    ELSE UNION {
           UNION {forceRunsAfter(g, popQueue(queue).item, s1,
                                 forceSeverDependencies(s1.g, o2, popQueue(queue).item)) :
                    o2 \in Perms(Lookup(s1.g.dependencies, popQueue(queue).item))} :
           s1 \in {severDependents(g, popQueue(queue).queue, o1, popQueue(queue).item,
                                   "bug: remove-force undepend dependent->current") :
                      o1 \in Perms(Lookup(g.dependents, popQueue(queue).item))}}

\* Faulty variant: every dependency is enqueued, whatever its other dependents.
RECURSIVE autoSeverDependencies_Always(_, _, _, _)
autoSeverDependencies_Always(g, queue, order, current) ==
    IF order = <<>> THEN [g |-> g, queue |-> queue, panic |-> "none"]
    ELSE LET dependency == Head(order) IN
         IF ~ContainsKey(g.dependents, dependency)
         THEN [g |-> g, queue |-> queue, panic |-> "bug"]
         ELSE LET r == Undepend(g, current, dependency)
              IN IF r.err # "nil"
                 THEN [g |-> r.g, queue |-> queue,
                       panic |-> "bug autoremove undepend current->dependency"]
                 ELSE autoSeverDependencies_Always(r.g, Append(queue, dependency),
                                                   Tail(order), current)

\* for dependency := range g.dependencies[current] of RemoveAutoRemove.
\* siblings is the Set object g.dependents[dependency], read again after
\* Undepend has run removeFromDep on it.
RECURSIVE autoSeverDependencies(_, _, _, _)
autoSeverDependencies(g, queue, order, current) ==
    IF order = <<>> THEN [g |-> g, queue |-> queue, panic |-> "none"]
    ELSE LET dependency == Head(order) IN
         IF ~ContainsKey(g.dependents, dependency)
         THEN [g |-> g, queue |-> queue, panic |-> "bug"]
         ELSE LET siblings == g.dependents[dependency]
                  r == Undepend(g, current, dependency)
              IN IF r.err # "nil"
                 THEN [g |-> r.g, queue |-> queue,
                       panic |-> "bug autoremove undepend current->dependency"]
                 ELSE LET after == setAfterRemove(siblings, current)
                          q == IF Cardinality(after) = 1 /\ contains(after, current)
                               THEN Append(queue, dependency)
                               ELSE queue
                      IN autoSeverDependencies(r.g, q, Tail(order), current)

\* The queue loop of RemoveAutoRemove: the set of outcomes over all
\* iteration orders.
RECURSIVE autoLoop(_, _)
autoLoop(g, queue) ==
    IF Len(queue) = 0 THEN {[g |-> g, panic |-> "none"]}
    ELSE LET p == popQueue(queue)
             current == p.item
         IN IF p.panic # "none" THEN {[g |-> g, panic |-> p.panic]}
            ELSE UNION {
              LET s1 == severDependents(g, p.queue, o1, current,
                                        "bug autoremove undepend dependent->current")
              IN IF s1.panic # "none" THEN {[g |-> s1.g, panic |-> s1.panic]}
                 ELSE UNION {
                   LET s2 == autoSeverDependencies(s1.g, s1.queue, o2, current)
                   IN IF s2.panic # "none" THEN {[g |-> s2.g, panic |-> s2.panic]}
                      ELSE autoLoop(Graph(s2.g.nodes \ {current}, s2.g.dependents,
                                          s2.g.dependencies), s2.queue)
                   : o2 \in Perms(Lookup(s1.g.dependencies, current))}
              : o1 \in Perms(Lookup(g.dependents, current))}

\* Faulty variant: the target is removed as by Remove, with no cascade.
RemoveAutoRemove_AsRemove(g, target) ==
    {[g |-> Remove(g, target).g, panic |-> "none"]}

RemoveAutoRemove(g, target) == autoLoop(g, <<target>>)

Realloc(g) == Graph(copySet(g.nodes), copyDep(g.dependents), copyDep(g.dependencies))

\* Faulty variant: only the loop over g.dependents is run.
AssertRelationships_FirstLoopOnly(g) ==
    LET first ==
            {"dangling dependency" :
                dependency \in {k \in DOMAIN g.dependents : ~contains(g.nodes, k)}}
            \cup
            {"dangling dependents for parent" :
                p \in {q \in UNION {{<<k, v>> : v \in g.dependents[k]} :
                                       k \in DOMAIN g.dependents \cap g.nodes} :
                          \/ ~contains(g.nodes, q[2])
                          \/ ~EdgesContains(g.dependencies, q[2], q[1])}}
    IN IF first # {} THEN first ELSE {"none"}

\* AssertRelationships: the panics it can raise, {"none"} when it returns.
\* Which failing check is met first depends on the iteration order; the second
\* loop is reached only when the first one finds nothing.
AssertRelationships(g) ==
    LET first ==
            {"dangling dependency" :
                dependency \in {k \in DOMAIN g.dependents : ~contains(g.nodes, k)}}
            \cup
            {"dangling dependents for parent" :
                p \in {q \in UNION {{<<k, v>> : v \in g.dependents[k]} :
                                       k \in DOMAIN g.dependents \cap g.nodes} :
                          \/ ~contains(g.nodes, q[2])
                          \/ ~EdgesContains(g.dependencies, q[2], q[1])}}
        second ==
            {"dangling dependents" :
                dependent \in {k \in DOMAIN g.dependencies : ~contains(g.nodes, k)}}
            \cup
            {"dangling child" :
                p \in {q \in UNION {{<<k, v>> : v \in g.dependencies[k]} :
                                       k \in DOMAIN g.dependencies \cap g.nodes} :
                          \/ ~contains(g.nodes, q[2])
                          \/ ~EdgesContains(g.dependents, q[2], q[1])}}
    IN IF first # {} THEN first
       ELSE IF second # {} THEN second
       ELSE {"none"}

-----------------------------------------------------------------------------
(* Set objects held by reference *)
(* A Go map value of type Set[T] is a reference: two Edges maps can hold   *)
(* the same Set object, and delete(nodes, target) on it is seen through    *)
(* both.  Where a method works on a copy of the receiver the indices are   *)
(* modelled as maps from keys to references into a heap of Set objects.    *)

\* The Set object stored under key in index idx of the graph named owner.
Ref(owner, idx, key) == <<owner, idx, key>>

\* The index deps of graph owner, as references ...
refsOf(owner, idx, deps) == [k \in DOMAIN deps |-> Ref(owner, idx, k)]

\* ... and the Set objects they point to.
heapOf(owner, idx, deps) ==
    [r \in {Ref(owner, idx, k) : k \in DOMAIN deps} |-> deps[r[3]]]

\* The graph value seen through the references of g.
View(heap, g) ==
    Graph(g.nodes,
          [k \in DOMAIN g.dependents |-> heap[g.dependents[k]]],
          [k \in DOMAIN g.dependencies |-> heap[g.dependencies[k]]])

\* Faulty variant: the outer map is copied and the Set objects are shared
\* (what copyMap does on an Edges map).
copyDepRef_Shallow(heap, deps, owner, idx) ==
    [heap |-> heap, deps |-> [k \in DOMAIN deps |-> deps[k]]]

\* copyDep: a new outer map whose Set objects are new copies.
copyDepRef(heap, deps, owner, idx) ==
    [heap |-> [r \in {Ref(owner, idx, k) : k \in DOMAIN deps} |-> copySet(heap[deps[r[3]]])]
              @@ heap,
     deps |-> [k \in DOMAIN deps |-> Ref(owner, idx, k)]]

\* Faulty variant: the two indices of the clone are swapped.
CloneRef_SwapsIndices(heap, g, owner) ==
    LET dcs == copyDepRef(heap, g.dependencies, owner, "dependencies")
        dts == copyDepRef(dcs.heap, g.dependents, owner, "dependents")
    IN [heap |-> dts.heap, g |-> Graph(copySet(g.nodes), dcs.deps, dts.deps)]

\* Faulty variant: the dependents index is copied with copyMap, which shares
\* the Set objects.
CloneRef_SharesDependents(heap, g, owner) ==
    LET dcs == copyDepRef(heap, g.dependencies, owner, "dependencies")
    IN [heap |-> dcs.heap, g |-> Graph(copySet(g.nodes), copyMap(g.dependents), dcs.deps)]

\* Clone, with the new graph named owner.
CloneRef(heap, g, owner) ==
    LET dcs == copyDepRef(heap, g.dependencies, owner, "dependencies")
        dts == copyDepRef(dcs.heap, g.dependents, owner, "dependents")
    IN [heap |-> dts.heap, g |-> Graph(copySet(g.nodes), dts.deps, dcs.deps)]

\* removeFromDep: delete(nodes, target) changes the Set object in place,
\* delete(deps, key) changes the outer map only.
removeFromDepRef(heap, deps, key, target) ==
    IF key \notin DOMAIN deps THEN [heap |-> heap, deps |-> deps]
    ELSE LET ns == heap[deps[key]] IN
         IF ~contains(ns, target) THEN [heap |-> heap, deps |-> deps]
         ELSE IF Cardinality(ns) # 1
         THEN [heap |-> [heap EXCEPT ![deps[key]] = ns \ {target}], deps |-> deps]
         ELSE [heap |-> heap, deps |-> DeleteKey(deps, key)]

\* for key := range keys { removeFromDep(deps, key, target) }
RECURSIVE removeEachRef(_, _, _, _)
removeEachRef(heap, deps, keys, target) ==
    IF keys = {} THEN [heap |-> heap, deps |-> deps]
    ELSE LET key == CHOOSE k \in keys : TRUE
             r == removeFromDepRef(heap, deps, key, target)
         IN removeEachRef(r.heap, r.deps, keys \ {key}, target)

\* Delete on a graph of references.
DeleteRef(heap, g, target) ==
    LET keys1 == IF target \in DOMAIN g.dependencies
                 THEN heap[g.dependencies[target]] ELSE {}
        r1 == removeEachRef(heap, g.dependents, keys1, target)
        dcs1 == DeleteKey(g.dependencies, target)
        keys2 == IF target \in DOMAIN r1.deps THEN r1.heap[r1.deps[target]] ELSE {}
        r2 == removeEachRef(r1.heap, dcs1, keys2, target)
        dts2 == DeleteKey(r1.deps, target)
    IN [heap |-> r2.heap, g |-> Graph(g.nodes \ {target}, dts2, r2.deps)]

\* addToDep: deps[key] = Set{node} stores a new Set object, named by owner;
\* nodes[node] = struct{}{} changes the Set object in place.
addToDepRef(heap, deps, key, node, owner, idx) ==
    IF key \notin DOMAIN deps
    THEN [heap |-> (Ref(owner, idx, key) :> {node}) @@ heap,
          deps |-> Store(deps, key, Ref(owner, idx, key))]
    ELSE [heap |-> [heap EXCEPT ![deps[key]] = @ \cup {node}], deps |-> deps]

\* The second addToDep of Depend, after the first one gave dts.
dependRefSecond(dts, g, dependent, dependency, owner) ==
    [heap |-> addToDepRef(dts.heap, g.dependencies, dependent, dependency,
                          owner, "dependencies").heap,
     g |-> Graph(g.nodes \cup {dependency, dependent}, dts.deps,
                 addToDepRef(dts.heap, g.dependencies, dependent, dependency,
                             owner, "dependencies").deps),
     ret |-> "nil"]

\* Depend on a graph of references.
DependRef(heap, g, dependent, dependency, owner) ==
    IF dependent = dependency
    THEN [heap |-> heap, g |-> g, ret |-> "ErrDependsOnSelf"]
    ELSE IF DependsOn(View(heap, g), dependency, dependent)
    THEN [heap |-> heap, g |-> g, ret |-> "ErrCircularDependency"]
    ELSE dependRefSecond(addToDepRef(heap, g.dependents, dependency, dependent,
                                     owner, "dependents"),
                         g, dependent, dependency, owner)

\* The second removeFromDep of Undepend, after the first one gave dts.
undependRefSecond(dts, g, dependent, dependency) ==
    [heap |-> removeFromDepRef(dts.heap, g.dependencies, dependent, dependency).heap,
     g |-> Graph(g.nodes, dts.deps,
                 removeFromDepRef(dts.heap, g.dependencies, dependent, dependency).deps),
     ret |-> "nil"]

\* Undepend on a graph of references.
UndependRef(heap, g, dependent, dependency) ==
    IF ~DependsOnDirectly(View(heap, g), dependent, dependency)
    THEN [heap |-> heap, g |-> g, ret |-> "ErrNoSuchDependency"]
    ELSE undependRefSecond(removeFromDepRef(heap, g.dependents, dependency, dependent),
                           g, dependent, dependency)

\* Delete on a graph of references, with the return value of a successful call.
deleteRefCall(r) == [heap |-> r.heap, g |-> r.g, ret |-> "nil"]

\* Remove on a graph of references.
RemoveRef(heap, g, target) ==
    IF ContainsKey(g.dependents, target)
    THEN [heap |-> heap, g |-> g, ret |-> "ErrDependentExists"]
    ELSE deleteRefCall(DeleteRef(heap, g, target))

\* The members of the Set object deps[key] (none for a nil map).
membersRef(heap, deps, key) == IF key \in DOMAIN deps THEN heap[deps[key]] ELSE {}

\* for dependent := range g.dependents[current] { Undepend; enqueue }
RECURSIVE severDependentsRef(_, _, _, _, _, _)
severDependentsRef(heap, g, queue, order, current, msg) ==
    IF order = <<>> THEN [heap |-> heap, g |-> g, queue |-> queue, panic |-> "none"]
    ELSE LET r == UndependRef(heap, g, Head(order), current)
         IN IF r.ret # "nil"
            THEN [heap |-> r.heap, g |-> r.g, queue |-> queue, panic |-> msg]
            ELSE severDependentsRef(r.heap, r.g, Append(queue, Head(order)),
                                    Tail(order), current, msg)

\* for dependency := range g.dependencies[current] of RemoveForce.
RECURSIVE forceSeverDependenciesRef(_, _, _, _)
forceSeverDependenciesRef(heap, g, order, current) ==
    IF order = <<>> THEN [heap |-> heap, g |-> g, panic |-> "none"]
    ELSE IF ~ContainsKey(g.dependents, Head(order))
    THEN [heap |-> heap, g |-> g, panic |-> "bug"]
    ELSE LET r == UndependRef(heap, g, current, Head(order))
         IN IF r.ret # "nil"
            THEN [heap |-> r.heap, g |-> r.g,
                  panic |-> "bug: remove-force undepend current->dependency"]
            ELSE forceSeverDependenciesRef(r.heap, r.g, Tail(order), current)

\* delete(g.nodes, current) at the end of one round of a queue loop.
dropNode(g, current) == Graph(g.nodes \ {current}, g.dependents, g.dependencies)

\* The queue loop of RemoveForce on a graph of references.
RECURSIVE forceLoopRef(_, _, _)
forceLoopRef(heap, g, queue) ==
    IF Len(queue) = 0 THEN {[heap |-> heap, g |-> g, ret |-> "none"]}
    ELSE UNION {
           LET s1 == severDependentsRef(heap, g, Tail(queue), o1, Head(queue),
                                        "bug: remove-force undepend dependent->current")
           IN IF s1.panic # "none"
              THEN {[heap |-> s1.heap, g |-> s1.g, ret |-> s1.panic]}
              ELSE UNION {
                     LET s2 == forceSeverDependenciesRef(s1.heap, s1.g, o2, Head(queue))
                     IN IF s2.panic # "none"
                        THEN {[heap |-> s2.heap, g |-> s2.g, ret |-> s2.panic]}
                        ELSE forceLoopRef(s2.heap, dropNode(s2.g, Head(queue)), s1.queue)
                     : o2 \in Perms(membersRef(s1.heap, s1.g.dependencies, Head(queue)))}
           : o1 \in Perms(membersRef(heap, g.dependents, Head(queue)))}

\* for dependency := range g.dependencies[current] of RemoveAutoRemove:
\* siblings is the Set object g.dependents[dependency], read after Undepend.
RECURSIVE autoSeverDependenciesRef(_, _, _, _, _)
autoSeverDependenciesRef(heap, g, queue, order, current) ==
    IF order = <<>> THEN [heap |-> heap, g |-> g, queue |-> queue, panic |-> "none"]
    ELSE IF ~ContainsKey(g.dependents, Head(order))
    THEN [heap |-> heap, g |-> g, queue |-> queue, panic |-> "bug"]
    ELSE LET r == UndependRef(heap, g, current, Head(order))
             siblings == g.dependents[Head(order)]
         IN IF r.ret # "nil"
            THEN [heap |-> r.heap, g |-> r.g, queue |-> queue,
                  panic |-> "bug autoremove undepend current->dependency"]
            ELSE autoSeverDependenciesRef(
                     r.heap, r.g,
                     IF Cardinality(r.heap[siblings]) = 1 /\ contains(r.heap[siblings], current)
                     THEN Append(queue, Head(order)) ELSE queue,
                     Tail(order), current)

\* The queue loop of RemoveAutoRemove on a graph of references.
RECURSIVE autoLoopRef(_, _, _)
autoLoopRef(heap, g, queue) ==
    IF Len(queue) = 0 THEN {[heap |-> heap, g |-> g, ret |-> "none"]}
    ELSE UNION {
           LET s1 == severDependentsRef(heap, g, Tail(queue), o1, Head(queue),
                                        "bug autoremove undepend dependent->current")
           IN IF s1.panic # "none"
              THEN {[heap |-> s1.heap, g |-> s1.g, ret |-> s1.panic]}
              ELSE UNION {
                     LET s2 == autoSeverDependenciesRef(s1.heap, s1.g, s1.queue, o2,
                                                        Head(queue))
                     IN IF s2.panic # "none"
                        THEN {[heap |-> s2.heap, g |-> s2.g, ret |-> s2.panic]}
                        ELSE autoLoopRef(s2.heap, dropNode(s2.g, Head(queue)), s2.queue)
                     : o2 \in Perms(membersRef(s1.heap, s1.g.dependencies, Head(queue)))}
           : o1 \in Perms(membersRef(heap, g.dependents, Head(queue)))}

\* Faulty variant: g.dependents is assigned the copy of g.dependencies.
reallocRefCall_SameIndexTwice(r) ==
    [heap |-> r.heap, g |-> Graph(r.g.nodes, r.g.dependencies, r.g.dependencies),
     ret |-> "nil"]

\* Realloc on a graph of references: the receiver gets new maps and new Sets.
reallocRefCall(r) == [heap |-> r.heap, g |-> r.g, ret |-> "nil"]

\* A call of a mutating method.
Call(name, a, b) == [op |-> name, a |-> a, b |-> b]

\* The outcomes of one call of a mutating method on the graph of references
\* g; Set objects the call creates are named by owner.
mutate(heap, g, call, owner) ==
    IF call.op = "Depend" THEN {DependRef(heap, g, call.a, call.b, owner)}
    ELSE IF call.op = "Undepend" THEN {UndependRef(heap, g, call.a, call.b)}
    ELSE IF call.op = "Remove" THEN {RemoveRef(heap, g, call.a)}
    ELSE IF call.op = "Delete" THEN {deleteRefCall(DeleteRef(heap, g, call.a))}
    ELSE IF call.op = "RemoveForce" THEN forceLoopRef(heap, g, <<call.a>>)
    ELSE IF call.op = "RemoveAutoRemove" THEN autoLoopRef(heap, g, <<call.a>>)
    ELSE {reallocRefCall(CloneRef(heap, g, owner))}

\* A write of the caller to a value it got from an accessor: on an inner Set,
\* s[x] = struct{}{} and delete(s, x); on the returned Edges map itself,
\* delete(m, k) and m[k] = Set{x}.
writeReturned(heap, deps, write, idx) ==
    IF write.op = "insert"
    THEN [heap |-> [heap EXCEPT ![deps[write.a]] = @ \cup {write.b}], deps |-> deps]
    ELSE IF write.op = "delete"
    THEN [heap |-> [heap EXCEPT ![deps[write.a]] = @ \ {write.b}], deps |-> deps]
    ELSE IF write.op = "deleteKey"
    THEN [heap |-> heap, deps |-> DeleteKey(deps, write.a)]
    ELSE [heap |-> (Ref("new", idx, write.a) :> {write.b}) @@ heap,
          deps |-> Store(deps, write.a, Ref("new", idx, write.a))]

-----------------------------------------------------------------------------
(* Layering *)

\* Faulty variant: only one of the leaves is deleted from the copy.
deleteEach_OnlyOne(heap, g, targets) ==
    IF targets = {} THEN [heap |-> heap, g |-> g]
    ELSE DeleteRef(heap, g, CHOOSE t \in targets : TRUE)

\* for leaf := range leaves { copied.Delete(leaf) }
RECURSIVE deleteEach(_, _, _)
deleteEach(heap, g, targets) ==
    IF targets = {} THEN [heap |-> heap, g |-> g]
    ELSE LET leaf == CHOOSE t \in targets : TRUE
             r == DeleteRef(heap, g, leaf)
         IN deleteEach(r.heap, r.g, targets \ {leaf})

\* Faulty variant: all nodes of the copy are returned as one layer.
layersLoop_OneLayer(heap, copied, layers) ==
    IF Cardinality(copied.nodes) = 0
    THEN [layers |-> layers, terminates |-> TRUE, heap |-> heap]
    ELSE [layers |-> Append(layers, copySet(copied.nodes)), terminates |-> TRUE,
          heap |-> heap]

\* The loop of Layers on the private copy.  With no leaf among the remaining
\* nodes the loop never ends; that is reported as terminates = FALSE.
RECURSIVE layersLoop(_, _, _)
layersLoop(heap, copied, layers) ==
    IF Cardinality(copied.nodes) = 0
    THEN [layers |-> layers, terminates |-> TRUE, heap |-> heap]
    ELSE LET leaves == Leaves(View(heap, copied)) IN
         IF leaves = {} THEN [layers |-> layers, terminates |-> FALSE, heap |-> heap]
         ELSE LET r == deleteEach(heap, copied, leaves)
              IN layersLoop(r.heap, r.g, Append(layers, copySet(leaves)))

\* Layers: the returned layers, and the receiver g as it is after the call.
Layers(g) ==
    LET receiver == Graph(g.nodes,
                          refsOf("g", "dependents", g.dependents),
                          refsOf("g", "dependencies", g.dependencies))
        heap == heapOf("g", "dependents", g.dependents)
                @@ heapOf("g", "dependencies", g.dependencies)
        c == CloneRef(heap, receiver, "copied")
        r == layersLoop(c.heap, c.g, <<>>)
    IN [layers |-> r.layers, terminates |-> r.terminates,
        receiver |-> View(r.heap, receiver)]

-----------------------------------------------------------------------------
(* The test helpers of depgraph_test.go and the README walk-through *)

\* The string nodes "a", "b", "c", "d", "x", "y", "0", "1" of the tests and of
\* the README, as values outside Nodes.
TestNode == [a |-> 11, b |-> 12, c |-> 13, d |-> 14, x |-> 15, y |-> 16,
             zero |-> 17, one |-> 18]

\* valids of initTestGraph, as pairs <<dependent, dependency>>.
valids == {<<TestNode.b, TestNode.a>>, <<TestNode.c, TestNode.a>>,
           <<TestNode.d, TestNode.c>>, <<TestNode.y, TestNode.x>>,
           <<TestNode.one, TestNode.zero>>}

\* addValidDependencies for the pairs of order, added one by one: Depend,
\* then the checks on DependsOn and Dependencies, and AssertRelationships at
\* the end.  The first failure ends the test.  The set of outcomes: the final
\* AssertRelationships panics with whichever failing check its range loops
\* meet first.
RECURSIVE addValidDependencies(_, _)
addValidDependencies(g, order) ==
    IF order = <<>>
    THEN {[g |-> g, err |-> IF m = "none" THEN "nil" ELSE m] :
             m \in AssertRelationships(g)}
    ELSE LET dependent == Head(order)[1]
             dependency == Head(order)[2]
             r == Depend(g, dependent, dependency)
         IN IF r.err # "nil" THEN {[g |-> r.g, err |-> r.err]}
            ELSE IF ~DependsOn(r.g, dependent, dependency)
            THEN {[g |-> r.g, err |-> "dependent should depend on dependency"]}
            ELSE IF ~SetContains(Dependencies(r.g, dependent), dependency)
            THEN {[g |-> r.g, err |-> "added dependency not found"]}
            ELSE addValidDependencies(r.g, Tail(order))

\* initTestGraph: the outcomes over the orders in which valids is ranged over.
initTestGraph == UNION {addValidDependencies(New, order) : order \in Perms(valids)}

\* The loop of testAutoRemoveNg and testAutoRemoveLeaves for one visiting
\* order: RemoveAutoRemove, then AssertRelationships, for each node.
RECURSIVE autoRemoveEach(_, _)
autoRemoveEach(g, order) ==
    IF order = <<>> THEN {[g |-> g, panic |-> "none"]}
    ELSE UNION {
           IF r.panic # "none" THEN {r}
           ELSE UNION {
                  IF m # "none" THEN {[g |-> r.g, panic |-> m]}
                  ELSE autoRemoveEach(r.g, Tail(order))
                  : m \in AssertRelationships(r.g)}
           : r \in RemoveAutoRemove(g, Head(order))}

testAutoRemoveNg(g, toRemoves) ==
    UNION {autoRemoveEach(g, order) : order \in Perms(toRemoves)}

\* removes of the three cases of TestRemoveAutoRemove.
testRemoves == {{TestNode.d},
                {TestNode.a, TestNode.x},
                {TestNode.a, TestNode.x, TestNode.one}}

assertEmptyGraph(g) ==
    IF Cardinality(g.nodes) # 0 THEN "graph not empty after all leaves removed"
    ELSE IF Cardinality(DOMAIN g.dependencies) # 0
    THEN "parents not null after all leaves removed"
    ELSE IF Cardinality(DOMAIN g.dependents) # 0
    THEN "children not null after all leaves removed"
    ELSE "none"

\* testAutoRemoveLeaves: Leaves() is evaluated once, before the loop.
testAutoRemoveLeaves(g) ==
    {[g |-> r.g, panic |-> IF r.panic # "none" THEN r.panic ELSE assertEmptyGraph(r.g)] :
        r \in testAutoRemoveNg(g, Leaves(g))}

\* The calls of the README section "Topological sort order in layers".
readmeCalls ==
    << [op |-> "Depend",   a |-> TestNode.b, b |-> TestNode.a],
       [op |-> "Depend",   a |-> TestNode.c, b |-> TestNode.b],
       [op |-> "Depend",   a |-> TestNode.d, b |-> TestNode.c],
       [op |-> "Layers",   a |-> NoNode,     b |-> NoNode],
       [op |-> "Depend",   a |-> TestNode.x, b |-> TestNode.zero],
       [op |-> "Layers",   a |-> NoNode,     b |-> NoNode],
       [op |-> "Undepend", a |-> TestNode.b, b |-> TestNode.a],
       [op |-> "Layers",   a |-> NoNode,     b |-> NoNode],
       [op |-> "Depend",   a |-> TestNode.b, b |-> TestNode.c],
       [op |-> "Layers",   a |-> NoNode,     b |-> NoNode] >>

\* What the walk-through keeps of a call: the graph after it, the error it
\* returned and, for Layers, the layers.
readmeEdgeCall(r) == [g |-> r.g, ret |-> r.err, layers |-> <<>>]

readmeLayersCall(r) ==
    [g |-> r.receiver,
     ret |-> IF r.terminates THEN "nil" ELSE "diverges",
     layers |-> r.layers]

\* One call of the walk-through on g.
readmeCall(g, call) ==
    IF call.op = "Depend" THEN readmeEdgeCall(Depend(g, call.a, call.b))
    ELSE IF call.op = "Undepend" THEN readmeEdgeCall(Undepend(g, call.a, call.b))
    ELSE readmeLayersCall(Layers(g))

-----------------------------------------------------------------------------
(* The state machine: a caller applying the public operations one by one *)

NoRoundTrip == [on |-> FALSE, base |-> New]

Op(name, a, b, ret, layers) ==
    [op |-> name, a |-> a, b |-> b, ret |-> ret, layers |-> layers, set |-> NilSet]

\* A query and its answer: a boolean as "true"/"false" in ret, a Set[T] in set.
Answer(name, a, b, ret, set) ==
    [op |-> name, a |-> a, b |-> b, ret |-> ret, layers |-> <<>>, set |-> set]

Bool(b) == IF b THEN "true" ELSE "false"

\* The caller holds no returned value.  A held value is a graph (kind
\* "graph", from Clone), an Edges map (kind "edges") or one Set (kind "set",
\* kept under the key it was read from; no key: the nil Set).  Each of its Set
\* objects is recorded with its members and with whether it is the very
\* object the graph holds under the same key of the same index.
NoOther ==
    [kind |-> "none", from |-> "none", side |-> "none", steps |-> 0,
     nodes |-> {}, dependents |-> EmptyEdges, dependencies |-> EmptyEdges,
     was |-> New]

\* Install graph value g as the state after operation o on the current graph.
Becomes(g, o) ==
    /\ nodes' = g.nodes
    /\ dependents' = g.dependents
    /\ dependencies' = g.dependencies
    /\ pre' = G
    /\ last' = o
    /\ other' = NoOther

Init ==
    /\ nodes = New.nodes
    /\ dependents = New.dependents
    /\ dependencies = New.dependencies
    /\ pre = New
    /\ last = Op("New", NoNode, NoNode, "nil", <<>>)
    /\ rt = NoRoundTrip
    /\ other = NoOther

DoDepend ==
    \E dependent \in Nodes, dependency \in Nodes :
        LET r == Depend(G, dependent, dependency) IN
        /\ Becomes(r.g, Op("Depend", dependent, dependency, r.err, <<>>))
        /\ rt' = NoRoundTrip

\* rt records whether this Undepend(x, y) directly follows a successful
\* Depend(x, y), and the graph before that Depend.
DoUndepend ==
    \E dependent \in Nodes, dependency \in Nodes :
        LET r == Undepend(G, dependent, dependency) IN
        /\ Becomes(r.g, Op("Undepend", dependent, dependency, r.err, <<>>))
        /\ rt' = IF /\ last.op = "Depend"
                    /\ last.ret = "nil"
                    /\ last.a = dependent
                    /\ last.b = dependency
                 THEN [on |-> TRUE, base |-> pre]
                 ELSE NoRoundTrip

DoRemove ==
    \E target \in Nodes :
        LET r == Remove(G, target) IN
        /\ Becomes(r.g, Op("Remove", target, NoNode, r.err, <<>>))
        /\ rt' = NoRoundTrip

DoRemoveForce ==
    \E target \in Nodes :
        \E r \in RemoveForce(G, target) :
            /\ Becomes(r.g, Op("RemoveForce", target, NoNode, r.panic, <<>>))
            /\ rt' = NoRoundTrip

DoRemoveAutoRemove ==
    \E target \in Nodes :
        \E r \in RemoveAutoRemove(G, target) :
            /\ Becomes(r.g, Op("RemoveAutoRemove", target, NoNode, r.panic, <<>>))
            /\ rt' = NoRoundTrip

DoDelete ==
    \E target \in Nodes :
        /\ Becomes(Delete(G, target), Op("Delete", target, NoNode, "nil", <<>>))
        /\ rt' = NoRoundTrip

DoRealloc ==
    /\ Becomes(Realloc(G), Op("Realloc", NoNode, NoNode, "nil", <<>>))
    /\ rt' = NoRoundTrip

DoLayers ==
    LET r == Layers(G) IN
    /\ Becomes(r.receiver, Op("Layers", NoNode, NoNode,
                     IF r.terminates THEN "nil" ELSE "diverges", r.layers))
    /\ rt' = NoRoundTrip

DoDependencies ==
    \E node \in Nodes :
        /\ Becomes(G, Answer("Dependencies", node, NoNode, "nil", Dependencies(G, node)))
        /\ rt' = NoRoundTrip

DoDependents ==
    \E node \in Nodes :
        /\ Becomes(G, Answer("Dependents", node, NoNode, "nil", Dependents(G, node)))
        /\ rt' = NoRoundTrip

DoDependsOn ==
    \E dependent \in Nodes, dependency \in Nodes :
        /\ Becomes(G, Answer("DependsOn", dependent, dependency,
                             Bool(DependsOn(G, dependent, dependency)), NilSet))
        /\ rt' = NoRoundTrip

DoDependsOnDirectly ==
    \E dependent \in Nodes, dependency \in Nodes :
        /\ Becomes(G, Answer("DependsOnDirectly", dependent, dependency,
                             Bool(DependsOnDirectly(G, dependent, dependency)), NilSet))
        /\ rt' = NoRoundTrip

DoContains ==
    \E node \in Nodes :
        /\ Becomes(G, Answer("Contains", node, NoNode, Bool(Contains(G, node)), NilSet))
        /\ rt' = NoRoundTrip

DoLeaves ==
    /\ Becomes(G, Answer("Leaves", NoNode, NoNode, "nil", SomeSet(Leaves(G))))
    /\ rt' = NoRoundTrip

Next ==
    \/ DoDepend
    \/ DoUndepend
    \/ DoRemove
    \/ DoRemoveForce
    \/ DoRemoveAutoRemove
    \/ DoDelete
    \/ DoRealloc
    \/ DoLayers
    \/ DoDependencies
    \/ DoDependents
    \/ DoDependsOn
    \/ DoDependsOnDirectly
    \/ DoContains
    \/ DoLeaves

Spec == Init /\ [][Next]_vars

-----------------------------------------------------------------------------
(* The tests and the README as callers *)

\* Number of edges a caller hands to addValidDependencies.
MaxEdges == 3

\* g := depgraph.New(); addValidDependencies(g, E) for a set E of pairs
\* <<dependent, dependency>>, added in any order.
DoAddValidDependencies ==
    /\ last.op = "New"
    /\ G = New
    /\ \E E \in {F \in SUBSET (Nodes \X Nodes) : Cardinality(F) \in 1..MaxEdges} :
          \E order \in Perms(E) :
              \E r \in addValidDependencies(G, order) :
              /\ Becomes(r.g, Answer("addValidDependencies", NoNode, NoNode, r.err, SomeSet(E)))
              /\ rt' = NoRoundTrip

DoInitTestGraph ==
    /\ last.op = "New"
    /\ G = New
    /\ \E r \in initTestGraph :
          /\ Becomes(r.g, Answer("initTestGraph", NoNode, NoNode, r.err, SomeSet(valids)))
          /\ rt' = NoRoundTrip

\* One case of TestRemoveAutoRemove, on the graph initTestGraph returned.
DoTestAutoRemoveNg ==
    /\ last.op = "initTestGraph"
    /\ last.ret = "nil"
    /\ \E removes \in testRemoves :
          \E r \in testAutoRemoveNg(G, removes) :
              /\ Becomes(r.g, Answer("testAutoRemoveNg", NoNode, NoNode, r.panic,
                                     SomeSet(removes)))
              /\ rt' = NoRoundTrip

DoTestAutoRemoveLeaves ==
    \E r \in testAutoRemoveLeaves(G) :
        /\ Becomes(r.g, Answer("testAutoRemoveLeaves", NoNode, NoNode, r.panic,
                               SomeSet(Leaves(G))))
        /\ rt' = NoRoundTrip

\* The next call of the README walk-through; last.a counts the calls made.
DoReadme ==
    \E n \in 1..Len(readmeCalls) :
        /\ \/ n = 1 /\ G = New
           \/ n > 1 /\ last.op = "README" /\ last.a = n - 1
        /\ \E r \in {readmeCall(G, readmeCalls[n])} :
              /\ Becomes(r.g, Op("README", n, NoNode, r.ret, r.layers))
              /\ rt' = NoRoundTrip

\* The graph holds nodes from Nodes only: the public operations are then
\* called with arguments from Nodes.
OnNodes == nodes \subseteq Nodes

NextTests ==
    \/ OnNodes /\ DoDepend
    \/ OnNodes /\ DoUndepend
    \/ OnNodes /\ DoRemove
    \/ OnNodes /\ DoRemoveForce
    \/ OnNodes /\ DoRemoveAutoRemove
    \/ OnNodes /\ DoDelete
    \/ OnNodes /\ DoRealloc
    \/ OnNodes /\ DoLayers
    \/ OnNodes /\ DoDependencies
    \/ OnNodes /\ DoDependents
    \/ OnNodes /\ DoDependsOn
    \/ OnNodes /\ DoDependsOnDirectly
    \/ OnNodes /\ DoContains
    \/ OnNodes /\ DoLeaves
    \/ DoAddValidDependencies
    \/ DoInitTestGraph
    \/ DoTestAutoRemoveNg
    \/ DoTestAutoRemoveLeaves
    \/ DoReadme

SpecTests == Init /\ [][NextTests]_vars

-----------------------------------------------------------------------------
(* A caller that keeps a returned value while the graph is used further *)

\* Number of calls and writes made while a returned value is held.
MaxAliasOps == 2

\* The content of the held value.
OtherView(o) ==
    Graph(o.nodes,
          [k \in DOMAIN o.dependents |-> o.dependents[k].set],
          [k \in DOMAIN o.dependencies |-> o.dependencies[k].set])

\* The references of the held value: a Set object shared with the graph is
\* the graph's, the others are its own.
otherRefs(cells, idx) ==
    [k \in DOMAIN cells |-> IF cells[k].shared THEN Ref("g", idx, k) ELSE Ref("o", idx, k)]

otherHeap(cells, idx) ==
    [r \in {Ref("o", idx, k) : k \in {j \in DOMAIN cells : ~cells[j].shared}} |->
        cells[r[3]].set]

\* The Set objects of the graph and of the held value, the graph and the held
\* value as references into them.
Heap ==
    heapOf("g", "dependents", dependents) @@ heapOf("g", "dependencies", dependencies)
    @@ otherHeap(other.dependents, "dependents")
    @@ otherHeap(other.dependencies, "dependencies")

GRefs ==
    Graph(nodes, refsOf("g", "dependents", dependents),
          refsOf("g", "dependencies", dependencies))

ORefs ==
    Graph(other.nodes, otherRefs(other.dependents, "dependents"),
          otherRefs(other.dependencies, "dependencies"))

\* The Set objects of the held value as they are recorded in the state.
cellsOf(heap, oDeps, gDeps) ==
    [k \in DOMAIN oDeps |->
        [set |-> heap[oDeps[k]],
         shared |-> (k \in DOMAIN gDeps) /\ (gDeps[k] = oDeps[k])]]

\* The state after a step that leaves the Set objects heap, the graph gR and
\* the held value oR.
Holding(heap, gR, oR, kind, from, side, steps, was, o) ==
    /\ nodes' = gR.nodes
    /\ dependents' = View(heap, gR).dependents
    /\ dependencies' = View(heap, gR).dependencies
    /\ other' = [kind |-> kind, from |-> from, side |-> side, steps |-> steps,
                 nodes |-> oR.nodes,
                 dependents |-> cellsOf(heap, oR.dependents, gR.dependents),
                 dependencies |-> cellsOf(heap, oR.dependencies, gR.dependencies),
                 was |-> was]
    /\ pre' = G
    /\ last' = o
    /\ rt' = NoRoundTrip

\* The mutating calls a caller makes.
Calls ==
    {Call(name, x, y) : name \in {"Depend", "Undepend"}, x \in Nodes, y \in Nodes}
    \cup {Call(name, x, NoNode) :
             name \in {"Remove", "RemoveForce", "RemoveAutoRemove", "Delete"}, x \in Nodes}
    \cup {Call("Realloc", NoNode, NoNode)}

\* The writes a caller makes to a returned value.
Writes ==
    {Call(name, k, x) : name \in {"insert", "delete", "store"}, k \in Nodes, x \in Nodes}
    \cup {Call("deleteKey", k, NoNode) : k \in Nodes}

\* The index an accessor reads.
indexOfAccessor(from) ==
    IF from \in {"GraphDependents", "DependentsDirect"} THEN "dependents" ELSE "dependencies"

\* c := g.Clone()
DoClone ==
    /\ other.kind # "graph"
    /\ \E c \in {CloneRef(Heap, GRefs, "new")} :
          Holding(c.heap, GRefs, c.g, "graph", "Clone", "none", other.steps,
                  View(c.heap, c.g), Op("Clone", NoNode, NoNode, "nil", <<>>))

\* m := g.GraphDependents()
DoGraphDependents ==
    /\ other.kind = "none"
    /\ Holding(Heap, GRefs, Graph({}, copyMap(GRefs.dependents), EmptyEdges),
               "edges", "GraphDependents", "none", 0,
               Graph({}, dependents, EmptyEdges),
               Op("GraphDependents", NoNode, NoNode, "nil", <<>>))

\* m := g.GraphDependencies()
DoGraphDependencies ==
    /\ other.kind = "none"
    /\ Holding(Heap, GRefs, Graph({}, EmptyEdges, copyMap(GRefs.dependencies)),
               "edges", "GraphDependencies", "none", 0,
               Graph({}, EmptyEdges, dependencies),
               Op("GraphDependencies", NoNode, NoNode, "nil", <<>>))

\* The entry of key node of the map m, as a map with that key alone; no key
\* when m[node] is the nil Set.
entryOf(m, node) == [k \in DOMAIN m \cap {node} |-> m[k]]

\* s := g.DependentsDirect(node)
DoDependentsDirect ==
    /\ other.kind = "none"
    /\ \E node \in Nodes :
          Holding(Heap, GRefs,
                  Graph({}, entryOf(copyMap(GRefs.dependents), node), EmptyEdges),
                  "set", "DependentsDirect", "none", 0,
                  Graph({}, entryOf(dependents, node), EmptyEdges),
                  Op("DependentsDirect", node, NoNode, "nil", <<>>))

\* s := g.DependenciesDirect(node)
DoDependenciesDirect ==
    /\ other.kind = "none"
    /\ \E node \in Nodes :
          Holding(Heap, GRefs,
                  Graph({}, EmptyEdges, entryOf(copyMap(GRefs.dependencies), node)),
                  "set", "DependenciesDirect", "none", 0,
                  Graph({}, EmptyEdges, entryOf(dependencies, node)),
                  Op("DependenciesDirect", node, NoNode, "nil", <<>>))

\* A mutating method is called on the graph while a returned value is held.
DoMutateGraph ==
    /\ other.kind # "none"
    /\ other.steps < MaxAliasOps
    /\ \E call \in Calls :
          \E r \in mutate(Heap, GRefs, call, "new") :
              Holding(r.heap, r.g, ORefs, other.kind, other.from, "graph",
                      other.steps + 1, OtherView(other),
                      Op(call.op, call.a, call.b, r.ret, <<>>))

\* A mutating method is called on the clone.
DoMutateClone ==
    /\ other.kind = "graph"
    /\ other.steps < MaxAliasOps
    /\ \E call \in Calls :
          \E r \in mutate(Heap, ORefs, call, "new") :
              Holding(r.heap, GRefs, r.g, other.kind, other.from, "clone",
                      other.steps + 1, OtherView(other),
                      Op(call.op, call.a, call.b, r.ret, <<>>))

\* The held value after a write to its index idx.
written(oR, idx, deps) ==
    IF idx = "dependents" THEN Graph(oR.nodes, deps, oR.dependencies)
    ELSE Graph(oR.nodes, oR.dependents, deps)

\* The caller writes to the value an accessor returned.
DoWriteReturned ==
    /\ other.kind \in {"edges", "set"}
    /\ other.steps < MaxAliasOps
    /\ \E write \in Writes :
          /\ (write.op \in {"insert", "delete"}) =>
                (write.a \in DOMAIN ORefs[indexOfAccessor(other.from)])
          /\ (write.op \in {"deleteKey", "store"}) => (other.kind = "edges")
          /\ \E w \in {writeReturned(Heap, ORefs[indexOfAccessor(other.from)], write,
                                     indexOfAccessor(other.from))} :
                Holding(w.heap, GRefs, written(ORefs, indexOfAccessor(other.from), w.deps),
                        other.kind, other.from, "returned", other.steps + 1,
                        OtherView(other), Op(write.op, write.a, write.b, "nil", <<>>))

\* The graph is built while no returned value is held.
NoneHeld == other.kind = "none"

NextAlias ==
    \/ NoneHeld /\ DoDepend
    \/ NoneHeld /\ DoUndepend
    \/ DoClone
    \/ DoGraphDependents
    \/ DoGraphDependencies
    \/ DoDependentsDirect
    \/ DoDependenciesDirect
    \/ DoMutateGraph
    \/ DoMutateClone
    \/ DoWriteReturned

SpecAlias == Init /\ [][NextAlias]_vars

-----------------------------------------------------------------------------
(* AssertRelationships on graphs written as struct literals *)

\* The nodes a struct literal is written over.
MaxTripleNode == 2

TripleNodes == 1..MaxTripleNode

\* Every Edges map over the literal's nodes: any keys, any Set under each.
TripleEdges == UNION {[K -> SUBSET TripleNodes] : K \in SUBSET TripleNodes}

\* A graph written as Graph[T]{nodes: ..., dependents: ..., dependencies: ...}
\* by code of the package, as opposed to one built from New().
Literal == [NoOther EXCEPT !.kind = "literal"]

\* The graph is New() or any struct literal over TripleNodes.
InitAssert ==
    /\ nodes \in SUBSET TripleNodes
    /\ dependents \in TripleEdges
    /\ dependencies \in TripleEdges
    /\ pre = New
    /\ last = Op("New", NoNode, NoNode, "nil", <<>>)
    /\ rt = NoRoundTrip
    /\ other = IF G = New THEN NoOther ELSE Literal

\* g.AssertRelationships(): the panic it raises, or "none"; it has no
\* assignment to a field or a map of g.
DoAssertRelationships ==
    \E panic \in AssertRelationships(G) :
        /\ UNCHANGED <<nodes, dependents, dependencies, other>>
        /\ pre' = G
        /\ last' = Op("AssertRelationships", NoNode, NoNode, panic, <<>>)
        /\ rt' = NoRoundTrip

NextAssert ==
    \/ DoAssertRelationships
    \/ NoneHeld /\ DoDepend
    \/ NoneHeld /\ DoUndepend
    \/ NoneHeld /\ DoRemove
    \/ NoneHeld /\ DoRemoveForce
    \/ NoneHeld /\ DoRemoveAutoRemove
    \/ NoneHeld /\ DoDelete

SpecAssert == InitAssert /\ [][NextAssert]_vars

-----------------------------------------------------------------------------
(* Reference notions the properties are stated in, independent of the code *)

\* The edges stored in an index, as pairs <<key, member>>.
EdgesOf(index) == UNION {{<<k, v>> : v \in index[k]} : k \in DOMAIN index}

\* The index that stores exactly the edges E, with no empty entry.
IndexOf(E) == [k \in {e[1] : e \in E} |-> {e[2] : e \in {f \in E : f[1] = k}}]

Inverse(E) == {<<e[2], e[1]>> : e \in E}

ComposeRel(R, S) == {<<pq[1][1], pq[2][2]>> : pq \in {rs \in R \X S : rs[1][2] = rs[2][1]}}

\* Transitive closure of a relation: paths of one or more edges.
RECURSIVE TransitiveClosure(_)
TransitiveClosure(R) ==
    LET R2 == R \cup ComposeRel(R, R)
    IN IF R2 = R THEN R ELSE TransitiveClosure(R2)

\* x depends on y through one or more direct-dependency edges of g.
TransitivelyDepends(g, x, y) == <<x, y>> \in TransitiveClosure(EdgesOf(g.dependencies))

\* The relation E has no cycle and no self-edge.
AcyclicRel(E) == \A e \in TransitiveClosure(E) : e[1] # e[2]

\* The least set that holds the nodes of R, every direct dependent of a
\* member, and every direct dependency of a member all of whose direct
\* dependents are members.
RECURSIVE AutoRemoveClosure(_, _)
AutoRemoveClosure(g, R) ==
    LET E == EdgesOf(g.dependencies)
        byDependents == {e[1] : e \in {f \in E : f[2] \in R}}
        byDependencies == {d \in {e[2] : e \in {f \in E : f[1] \in R}} :
                              \A f \in E : (f[2] = d) => (f[1] \in R)}
        R2 == R \cup byDependents \cup byDependencies
    IN IF R2 = R THEN R ELSE AutoRemoveClosure(g, R2)

\* The number of edges on the longest chain of direct dependencies that
\* starts at node n (defined on acyclic graphs).
RECURSIVE LongestChain(_, _)
LongestChain(g, n) ==
    LET ds == Lookup(g.dependencies, n)
        below == {LongestChain(g, d) : d \in ds}
    IN IF ds = {} THEN 0
       ELSE 1 + CHOOSE m \in below : \A k \in below : k <= m

\* g.Delete(n) for each n of the sequence order, one call after the other.
RECURSIVE deleteAll(_, _)
deleteAll(g, order) ==
    IF order = <<>> THEN g ELSE deleteAll(Delete(g, Head(order)), Tail(order))

\* The structural invariants, of a graph value g.
ContainmentOf(g) ==
    /\ DOMAIN g.dependencies \subseteq g.nodes
    /\ DOMAIN g.dependents \subseteq g.nodes
    /\ \A k \in DOMAIN g.dependencies : g.dependencies[k] \subseteq g.nodes
    /\ \A k \in DOMAIN g.dependents : g.dependents[k] \subseteq g.nodes

SymmetryOf(g) == EdgesOf(g.dependents) = Inverse(EdgesOf(g.dependencies))

NoSelfEdgeOf(g) ==
    \A e \in EdgesOf(g.dependencies) \cup EdgesOf(g.dependents) : e[1] # e[2]

AcyclicityOf(g) == AcyclicRel(EdgesOf(g.dependencies))

NoEmptyEntryOf(g) ==
    /\ \A k \in DOMAIN g.dependencies : g.dependencies[k] # {}
    /\ \A k \in DOMAIN g.dependents : g.dependents[k] # {}

-----------------------------------------------------------------------------
(* The loops of Layers, RemoveForce and RemoveAutoRemove, round by round *)

\* A call whose loop is running: the method, its target, the work queue, the
\* private copy and the layers of Layers, and the graph at the call.
Running(method, target, queue, copied, layers, was) ==
    [kind |-> "loop", from |-> method, side |-> "none", steps |-> 0,
     nodes |-> {}, dependents |-> EmptyEdges, dependencies |-> EmptyEdges,
     was |-> was, target |-> target, queue |-> queue, copied |-> copied,
     layers |-> layers]

InLoop(method) == other.kind = "loop" /\ other.from = method

\* The loop goes on with graph g and loop state o.
LoopGoes(g, o) ==
    /\ nodes' = g.nodes
    /\ dependents' = g.dependents
    /\ dependencies' = g.dependencies
    /\ other' = o
    /\ UNCHANGED <<pre, last, rt>>

\* The call returns (or panics) and leaves graph g.
LoopReturns(g, o) ==
    /\ nodes' = g.nodes
    /\ dependents' = g.dependents
    /\ dependencies' = g.dependencies
    /\ other' = NoOther
    /\ pre' = other.was
    /\ last' = o
    /\ rt' = NoRoundTrip

\* The end of a round of a queue loop: a panic ends the call, an empty queue
\* fails the loop condition and the call returns.
AfterRound(method, g, queue, panic) ==
    IF panic # "none"
    THEN LoopReturns(g, Op(method, other.target, NoNode, panic, <<>>))
    ELSE IF Len(queue) = 0
    THEN LoopReturns(g, Op(method, other.target, NoNode, "none", <<>>))
    ELSE LoopGoes(g, [other EXCEPT !.queue = queue])

\* queue := []T{target}
CallRemoveForce ==
    /\ NoneHeld
    /\ \E target \in Nodes :
          LoopGoes(G, Running("RemoveForce", target, <<target>>, New, <<>>, G))

CallRemoveAutoRemove ==
    /\ NoneHeld
    /\ \E target \in Nodes :
          LoopGoes(G, Running("RemoveAutoRemove", target, <<target>>, New, <<>>, G))

\* One round of for len(queue) != 0 { ... } of RemoveForce.  A panic in
\* either range loop ends the call before delete(g.nodes, current).
RoundRemoveForce ==
    /\ InLoop("RemoveForce")
    /\ \E p \in {popQueue(other.queue)} :
          IF p.panic # "none" THEN AfterRound("RemoveForce", G, p.queue, p.panic)
          ELSE
          \E o1 \in Perms(Lookup(dependents, p.item)) :
          \E s1 \in {severDependents(G, p.queue, o1, p.item,
                                     "bug: remove-force undepend dependent->current")} :
             IF s1.panic # "none" THEN AfterRound("RemoveForce", s1.g, s1.queue, s1.panic)
             ELSE
             \E o2 \in Perms(Lookup(s1.g.dependencies, p.item)) :
             \E s2 \in {forceSeverDependencies(s1.g, o2, p.item)} :
                IF s2.panic # "none"
                THEN AfterRound("RemoveForce", s2.g, s1.queue, s2.panic)
                ELSE AfterRound("RemoveForce", dropNode(s2.g, p.item), s1.queue, "none")

\* One round of for len(queue) != 0 { ... } of RemoveAutoRemove.  A panic in
\* either range loop ends the call before delete(g.nodes, current).
RoundRemoveAutoRemove ==
    /\ InLoop("RemoveAutoRemove")
    /\ \E p \in {popQueue(other.queue)} :
          IF p.panic # "none" THEN AfterRound("RemoveAutoRemove", G, p.queue, p.panic)
          ELSE
          \E o1 \in Perms(Lookup(dependents, p.item)) :
          \E s1 \in {severDependents(G, p.queue, o1, p.item,
                                     "bug autoremove undepend dependent->current")} :
             IF s1.panic # "none"
             THEN AfterRound("RemoveAutoRemove", s1.g, s1.queue, s1.panic)
             ELSE
             \E o2 \in Perms(Lookup(s1.g.dependencies, p.item)) :
             \E s2 \in {autoSeverDependencies(s1.g, s1.queue, o2, p.item)} :
                IF s2.panic # "none"
                THEN AfterRound("RemoveAutoRemove", s2.g, s2.queue, s2.panic)
                ELSE AfterRound("RemoveAutoRemove", dropNode(s2.g, p.item), s2.queue, "none")

\* Faulty variant: the leaves are appended as a layer and not deleted.
layersRound_NoDelete(copied, layers, order) ==
    [copied |-> copied, layers |-> Append(layers, copySet(Leaves(copied)))]

\* leaves := copied.Leaves(); Delete each leaf, in the given order; append.
layersRound(copied, layers, order) ==
    [copied |-> deleteAll(copied, order),
     layers |-> Append(layers, copySet(Leaves(copied)))]

\* The loop condition of Layers: the call returns when the copy has no node.
AfterLayersRound(r, was) ==
    IF Cardinality(r.copied.nodes) = 0
    THEN /\ UNCHANGED <<nodes, dependents, dependencies>>
         /\ other' = NoOther
         /\ pre' = was
         /\ last' = Op("Layers", NoNode, NoNode, "nil", r.layers)
         /\ rt' = NoRoundTrip
    ELSE LoopGoes(G, Running("Layers", NoNode, <<>>, r.copied, r.layers, was))

\* var layers []Set[T]; copied := g.Clone()
CallLayers ==
    /\ NoneHeld
    /\ AfterLayersRound([copied |-> Clone(G), layers |-> <<>>], G)

\* One round of for len(copied.nodes) != 0 { ... }.  A run that finds no leaf
\* appends empty layers for ever; it is followed for MaxNode + 1 layers.
RoundLayers ==
    /\ InLoop("Layers")
    /\ Len(other.layers) <= MaxNode
    /\ \E order \in Perms(Leaves(other.copied)) :
          AfterLayersRound(layersRound(other.copied, other.layers, order), other.was)

LoopRound == RoundRemoveForce \/ RoundRemoveAutoRemove \/ RoundLayers

NextLoops ==
    \/ NoneHeld /\ DoDepend
    \/ NoneHeld /\ DoUndepend
    \/ CallRemoveForce
    \/ CallRemoveAutoRemove
    \/ CallLayers
    \/ RoundRemoveForce
    \/ RoundRemoveAutoRemove
    \/ RoundLayers

\* A call that has started goes on running: its next round is taken.
SpecLoops == Init /\ [][NextLoops]_vars /\ WF_vars(LoopRound)

-----------------------------------------------------------------------------
(* Structural invariants *)

\* C1: after every sequence of public operations the two indices are exact
\* inverses: y is in dependencies[x] iff x is in dependents[y].
C1_Symmetry ==
    \A x \in Nodes, y \in Nodes :
        (y \in Lookup(dependencies, x)) <=> (x \in Lookup(dependents, y))

\* A cascading removal ran on a graph with edges and left some edge behind.
C1_Witness ==
    /\ last.op = "RemoveAutoRemove"
    /\ G # pre
    /\ DOMAIN dependencies # {}
    /\ DOMAIN dependents # {}

\* C2: every key and every member of every value set of either index is a
\* member of the node set.
C2_NoDangling ==
    /\ DOMAIN dependencies \subseteq nodes
    /\ DOMAIN dependents \subseteq nodes
    /\ \A k \in DOMAIN dependencies : dependencies[k] \subseteq nodes
    /\ \A k \in DOMAIN dependents : dependents[k] \subseteq nodes

\* Delete removed a node that had both a dependent and a dependency.
C2_Witness ==
    /\ last.op = "Delete"
    /\ last.a \in DOMAIN pre.dependencies
    /\ last.a \in DOMAIN pre.dependents
    /\ last.a \notin nodes
    /\ nodes # {}

\* C3: the graph of the dependencies index is acyclic and has no self-edge:
\* no node is reachable from itself by one or more dependency edges.
C3_Acyclic ==
    \A n \in Nodes : ~TransitivelyDepends(G, n, n)

\* A Depend call that would have closed a cycle of three edges was refused.
C3_Witness ==
    /\ last.op = "Depend"
    /\ last.ret = "ErrCircularDependency"
    /\ Cardinality(EdgesOf(dependencies)) >= 2
    /\ ~DependsOnDirectly(G, last.b, last.a)

\* C4: no key of either index maps to an empty set.
C4_NoEmptyEntry ==
    /\ \A k \in DOMAIN dependencies : dependencies[k] # {}
    /\ \A k \in DOMAIN dependents : dependents[k] # {}

\* Undepend removed the only dependency of a node and the only dependent of
\* the other, while other edges remain.
C4_Witness ==
    /\ last.op = "Undepend"
    /\ last.ret = "nil"
    /\ Cardinality(pre.dependencies[last.a]) = 1
    /\ Cardinality(pre.dependents[last.b]) = 1
    /\ DOMAIN dependencies # {}

-----------------------------------------------------------------------------
(* Depend *)

\* C5: Depend(dependent, dependency) with dependent # dependency returns
\* ErrCircularDependency iff dependency already transitively depends on
\* dependent; on that error the node set and both indices are unchanged.
C5_CircularIff ==
    (last.op = "Depend" /\ last.a # last.b) =>
        /\ (last.ret = "ErrCircularDependency") <=> TransitivelyDepends(pre, last.b, last.a)
        /\ (last.ret = "ErrCircularDependency") => (G = pre)

\* The refused edge would have closed a cycle through an indirect dependency.
C5_Witness ==
    /\ last.op = "Depend"
    /\ last.ret = "ErrCircularDependency"
    /\ ~DependsOnDirectly(pre, last.b, last.a)
    /\ TransitivelyDepends(pre, last.b, last.a)

\* C6: Depend(n, n) returns ErrDependsOnSelf for every n and every graph,
\* and leaves the node set and both indices unchanged (n is not created).
C6_SelfDependency ==
    (last.op = "Depend" /\ last.a = last.b) =>
        /\ last.ret = "ErrDependsOnSelf"
        /\ G = pre
        /\ (last.a \notin pre.nodes => last.a \notin nodes)

\* Depend(n, n) was called for a value n that is not a node of a non-empty graph.
C6_Witness ==
    /\ last.op = "Depend"
    /\ last.a = last.b
    /\ last.a \notin pre.nodes
    /\ pre.nodes # {}

\* C7: a successful Depend leaves both nodes in the node set and the edge in
\* both indices, every other node and edge as before; if the edge already
\* existed the call succeeds and the graph is unchanged.
C7_DependEffect ==
    /\ (last.op = "Depend" /\ last.ret = "nil") =>
          /\ nodes = pre.nodes \cup {last.a, last.b}
          /\ last.b \in Lookup(dependencies, last.a)
          /\ last.a \in Lookup(dependents, last.b)
          /\ dependencies = IndexOf(EdgesOf(pre.dependencies) \cup {<<last.a, last.b>>})
          /\ dependents = IndexOf(EdgesOf(pre.dependents) \cup {<<last.b, last.a>>})
    /\ (last.op = "Depend" /\ DependsOnDirectly(pre, last.a, last.b)) =>
          /\ last.ret = "nil"
          /\ G = pre

\* Depend was called on an edge that already existed, from a node with
\* another dependency to a node with another dependent: the call succeeded
\* and the Sets the edge is in still have their other members.
C7_Witness ==
    /\ last.op = "Depend"
    /\ last.ret = "nil"
    /\ DependsOnDirectly(pre, last.a, last.b)
    /\ G = pre
    /\ Cardinality(Lookup(dependencies, last.a)) >= 2
    /\ Cardinality(Lookup(dependents, last.b)) >= 2

-----------------------------------------------------------------------------
(* Undepend *)

\* C8: Undepend(dependent, dependency) returns ErrNoSuchDependency iff
\* dependency is not a direct dependency of dependent; on that error the
\* node set and both indices are unchanged.
C8_NoSuchDependencyIff ==
    (last.op = "Undepend") =>
        /\ (last.ret = "ErrNoSuchDependency") <=> (<<last.a, last.b>> \notin EdgesOf(pre.dependencies))
        /\ (last.ret = "ErrNoSuchDependency") => (G = pre)

\* Undepend was refused for a relationship that exists only transitively.
C8_Witness ==
    /\ last.op = "Undepend"
    /\ last.ret = "ErrNoSuchDependency"
    /\ TransitivelyDepends(pre, last.a, last.b)

\* C9: a successful Undepend removes exactly the one direct edge from both
\* indices and leaves the node set unchanged.
C9_UndependEffect ==
    (last.op = "Undepend" /\ last.ret = "nil") =>
        /\ nodes = pre.nodes
        /\ dependencies = IndexOf(EdgesOf(pre.dependencies) \ {<<last.a, last.b>>})
        /\ dependents = IndexOf(EdgesOf(pre.dependents) \ {<<last.b, last.a>>})

\* Undepend left the dependent with no edge at all while the dependency keeps
\* another dependent.
C9_Witness ==
    /\ last.op = "Undepend"
    /\ last.ret = "nil"
    /\ last.a \in nodes
    /\ last.a \notin DOMAIN dependencies
    /\ last.a \notin DOMAIN dependents
    /\ last.b \in DOMAIN dependents

\* C10 as stated: after a successful Depend(x, y), a following Undepend(x, y)
\* succeeds and afterwards DependsOn(x, y) is false, the edge is absent from
\* both indices, and x and y are still nodes.
C10_RoundTripAsStated ==
    rt.on =>
        /\ last.ret = "nil"
        /\ ~DependsOn(G, last.a, last.b)
        /\ last.b \notin Lookup(dependencies, last.a)
        /\ last.a \notin Lookup(dependents, last.b)
        /\ {last.a, last.b} \subseteq nodes

\* C10 amended: after a successful Depend(x, y), a following Undepend(x, y)
\* succeeds, the edge x->y is absent from both indices, x and y are still
\* nodes, and DependsOn(x, y) is false unless x depended on y through another
\* node before the Depend, in which case it stays true.
C10_RoundTrip ==
    rt.on =>
        /\ last.ret = "nil"
        /\ last.b \notin Lookup(dependencies, last.a)
        /\ last.a \notin Lookup(dependents, last.b)
        /\ {last.a, last.b} \subseteq nodes
        /\ DependsOn(G, last.a, last.b) <=>
              \E z \in Nodes \ {last.b} :
                  /\ <<last.a, z>> \in EdgesOf(rt.base.dependencies)
                  /\ TransitivelyDepends(rt.base, z, last.b)

\* The round trip ran on a pair whose dependent was created by the Depend.
C10_Witness ==
    /\ rt.on
    /\ last.op = "Undepend"
    /\ last.a \notin rt.base.nodes
    /\ last.a \in nodes
    /\ ~DependsOn(G, last.a, last.b)

-----------------------------------------------------------------------------
(* Queries *)

\* C11 as stated: DependsOn(dependent, dependency) is true iff dependency is
\* reachable from dependent by zero or more direct-dependency edges, the
\* zero-edge case being DependsOn(n, n) for a node n of the graph.
C11_DependsOnAsStated ==
    (last.op = "DependsOn") =>
        ((last.ret = "true") <=>
            \/ (last.a = last.b /\ last.a \in nodes)
            \/ TransitivelyDepends(G, last.a, last.b))

\* C11 amended: DependsOn(dependent, dependency) is true iff dependency is
\* reachable from dependent by one or more direct-dependency edges; in
\* particular DependsOn(n, n) is false for every n.
C11_DependsOn ==
    (last.op = "DependsOn") =>
        /\ (last.ret = "true") <=> TransitivelyDepends(G, last.a, last.b)
        /\ (last.a = last.b) => (last.ret = "false")

\* DependsOn(n, n) was asked for a node n that has dependencies.
C11_Witness ==
    /\ last.op = "DependsOn"
    /\ last.a = last.b
    /\ last.a \in DOMAIN dependencies
    /\ last.ret = "false"

\* C12: for every node n of the graph Dependencies(n) is exactly the set of
\* nodes reachable from n by one or more direct-dependency edges, and
\* DependsOn(n, b) is true iff b is a member of Dependencies(n).
C12_DependenciesClosure ==
    (last.op = "Dependencies" /\ last.a \in nodes) =>
        /\ ~last.set.nil
        /\ last.set.set = {y \in Nodes : TransitivelyDepends(G, last.a, y)}
        /\ \A b \in Nodes : DependsOn(G, last.a, b) <=> (b \in last.set.set)

\* Dependencies returned a dependency that is not a direct one.
C12_Witness ==
    /\ last.op = "Dependencies"
    /\ \E y \in last.set.set : ~DependsOnDirectly(G, last.a, y)

\* C13: for all nodes a and b of the graph, b is in Dependents(a) iff a is in
\* Dependencies(b).
C13_MutualInverse ==
    (last.op = "Dependents" /\ last.a \in nodes) =>
        \A b \in nodes :
            (b \in last.set.set) <=> SetContains(Dependencies(G, b), last.a)

\* Dependents returned a direct and an indirect dependent.
C13_Witness ==
    /\ last.op = "Dependents"
    /\ Cardinality(last.set.set) >= 2
    /\ \E y \in last.set.set : ~DependsOnDirectly(G, y, last.a)

\* C14: Dependencies and Dependents return nil exactly for a node that is not
\* in the node set (a node without edges gets an empty, non-nil set), and
\* DependsOn, DependsOnDirectly and Contains return false when a node they
\* are asked about is not in the node set.
C14_UnknownNode ==
    /\ (last.op \in {"Dependencies", "Dependents"}) =>
          /\ last.set.nil <=> (last.a \notin nodes)
          /\ (last.a \in nodes) => (last.set # NilSet)
    /\ (last.op \in {"DependsOn", "DependsOnDirectly"}
            /\ (last.a \notin nodes \/ last.b \notin nodes)) =>
          last.ret = "false"
    /\ (last.op = "Contains" /\ last.a \notin nodes) => last.ret = "false"

\* Dependencies was asked about a value that is not a node of a graph that
\* also holds a node without any edge.
C14_Witness ==
    /\ last.op = "Dependencies"
    /\ last.a \notin nodes
    /\ last.set = NilSet
    /\ \E n \in nodes : Dependencies(G, n) = SomeSet({}) /\ Dependents(G, n) = SomeSet({})

-----------------------------------------------------------------------------
(* Layers *)

\* C15: Layers() returns a partition of the node set: no layer is empty, no
\* layer holds a value that is not a node, every node is in exactly one layer.
C15_LayersPartition ==
    (last.op = "Layers") =>
        /\ last.ret = "nil"
        /\ \A i \in 1..Len(last.layers) :
              /\ last.layers[i] # {}
              /\ last.layers[i] \subseteq nodes
        /\ UNION {last.layers[i] : i \in 1..Len(last.layers)} = nodes
        /\ \A i \in 1..Len(last.layers), j \in 1..Len(last.layers) :
              (i # j) => (last.layers[i] \cap last.layers[j] = {})

\* Layers returned more than one layer, one of them with two nodes.
C15_Witness ==
    /\ last.op = "Layers"
    /\ Len(last.layers) >= 2
    /\ Cardinality(last.layers[1]) >= 2

\* C16: every direct dependency of a node in layer i lies in a layer with a
\* strictly smaller index; no node depends, directly or transitively, on a
\* node of the same or a later layer.
C16_LayersOrder ==
    (last.op = "Layers") =>
        /\ \A i \in 1..Len(last.layers) :
              \A n \in last.layers[i] :
                  \A d \in Lookup(dependencies, n) :
                      \E j \in 1..(i - 1) : d \in last.layers[j]
        /\ \A i \in 1..Len(last.layers), j \in 1..Len(last.layers) :
              (i <= j) =>
                  \A n \in last.layers[i], m \in last.layers[j] :
                      ~TransitivelyDepends(G, n, m)

\* Layers returned three layers for a chain of dependencies.
C16_Witness ==
    /\ last.op = "Layers"
    /\ Len(last.layers) >= 3

\* C17: Layers() does not modify the graph it is called on.
C17_LayersPure ==
    (last.op = "Layers") => (G = pre)

\* Layers ran on a graph in which a node has two dependencies, so that the
\* copy had a member deleted from one of its sets.
C17_Witness ==
    /\ last.op = "Layers"
    /\ \E n \in nodes : Cardinality(Lookup(dependencies, n)) >= 2
    /\ Len(last.layers) >= 2

-----------------------------------------------------------------------------
(* Remove and Delete *)

\* The graph g restricted to the nodes outside removed.
Without(g, removed) ==
    Graph(g.nodes \ removed,
          IndexOf({e \in EdgesOf(g.dependents) : e[1] \notin removed /\ e[2] \notin removed}),
          IndexOf({e \in EdgesOf(g.dependencies) : e[1] \notin removed /\ e[2] \notin removed}))

\* C18: Remove(target) returns ErrDependentExists iff some node directly
\* depends on target, and then the graph is unchanged; otherwise it succeeds
\* with the effect of Delete(target).
C18_Remove ==
    (last.op = "Remove") =>
        /\ (last.ret = "ErrDependentExists") <=>
              (\E x \in Nodes : <<x, last.a>> \in EdgesOf(pre.dependencies))
        /\ (last.ret = "ErrDependentExists") => (G = pre)
        /\ (last.ret # "ErrDependentExists") =>
              /\ last.ret = "nil"
              /\ G = Delete(pre, last.a)
              /\ G = Without(pre, {last.a})

\* Remove was refused for a node with a dependent and dependencies of its own.
C18_Witness ==
    /\ last.op = "Remove"
    /\ last.ret = "ErrDependentExists"
    /\ last.a \in DOMAIN dependencies
    /\ last.a \in DOMAIN dependents

\* C19 as stated: for every leaf n (a member of Leaves()), Remove(n) returns
\* success.
C19_RemoveLeafAsStated ==
    (last.op = "Remove" /\ last.a \in Leaves(pre)) => (last.ret = "nil")

\* C19 amended: for every leaf n, Remove(n) returns success iff no node
\* directly depends on n; a leaf with a dependent yields ErrDependentExists.
C19_RemoveLeaf ==
    (last.op = "Remove" /\ last.a \in Leaves(pre)) =>
        /\ (last.ret = "nil") <=>
              ~(\E x \in Nodes : <<x, last.a>> \in EdgesOf(pre.dependencies))
        /\ (last.ret # "nil") => (last.ret = "ErrDependentExists")

\* Remove succeeded on a leaf without dependents of a graph that has edges.
C19_Witness ==
    /\ last.op = "Remove"
    /\ last.a \in Leaves(pre)
    /\ last.ret = "nil"
    /\ last.a \notin nodes
    /\ DOMAIN dependencies # {}

\* C20: Delete(n) never fails; afterwards n is absent from the node set, from
\* the keys and from every value set of both indices, and every other node and
\* every edge not touching n is as before.
C20_Delete ==
    (last.op = "Delete") =>
        /\ last.ret = "nil"
        /\ last.a \notin nodes
        /\ last.a \notin DOMAIN dependencies \cup DOMAIN dependents
        /\ \A k \in DOMAIN dependencies : last.a \notin dependencies[k]
        /\ \A k \in DOMAIN dependents : last.a \notin dependents[k]
        /\ G = Without(pre, {last.a})

\* Delete removed a node with two dependents, which stay in the graph.
C20_Witness ==
    /\ last.op = "Delete"
    /\ Cardinality(Lookup(pre.dependents, last.a)) >= 2
    /\ Lookup(pre.dependents, last.a) \subseteq nodes

-----------------------------------------------------------------------------
(* Cascading removal *)

\* C21: RemoveForce(target) on a graph containing target removes exactly
\* target and every transitive dependent of target (Dependents(target)) and
\* nothing else: the result is the original graph restricted to the remaining
\* nodes, so every dependency of a removed node that is not itself removed
\* stays a node, with or without edges.
C21_RemoveForce ==
    (last.op = "RemoveForce" /\ last.a \in pre.nodes) =>
        LET removed == {last.a} \cup {x \in Nodes : TransitivelyDepends(pre, x, last.a)} IN
        /\ last.ret = "none"
        /\ removed = {last.a} \cup Dependents(pre, last.a).set
        /\ nodes = pre.nodes \ removed
        /\ G = Without(pre, removed)
        /\ \A x \in removed :
              \A d \in Lookup(pre.dependencies, x) : (d \notin removed) => (d \in nodes)

\* RemoveForce removed a node together with a dependent, and the dependency
\* of the removed node stays in the graph without any edge.
C21_Witness ==
    /\ last.op = "RemoveForce"
    /\ Lookup(pre.dependents, last.a) # {}
    /\ \E d \in Lookup(pre.dependencies, last.a) :
          /\ d \in nodes
          /\ d \notin DOMAIN dependents
          /\ d \notin DOMAIN dependencies

\* C23: the result of RemoveAutoRemove(target) does not depend on the order
\* in which the dependents and the dependencies of each dequeued node are
\* visited: every iteration order yields the same node set and indices.
C23_OrderIndependent ==
    (last.op = "RemoveAutoRemove") =>
        \A r \in RemoveAutoRemove(pre, last.a) :
            /\ r.g = G
            /\ r.panic = last.ret

\* RemoveAutoRemove ran on a node with two dependents, which can be visited
\* in either order.
C23_Witness ==
    /\ last.op = "RemoveAutoRemove"
    /\ Cardinality(Lookup(pre.dependents, last.a)) >= 2
    /\ Cardinality(Perms(Lookup(pre.dependents, last.a))) >= 2

\* C25: RemoveForce, RemoveAutoRemove and Delete always succeed: none of the
\* internal panics is reached under any iteration order, and a call for a
\* target that is not in the node set leaves the graph unchanged.
C25_NoPanic ==
    /\ (last.op = "RemoveForce") =>
          /\ \A r \in RemoveForce(pre, last.a) : r.panic = "none"
          /\ last.ret = "none"
    /\ (last.op = "RemoveAutoRemove") =>
          /\ \A r \in RemoveAutoRemove(pre, last.a) : r.panic = "none"
          /\ last.ret = "none"
    /\ (last.op = "Delete") => (last.ret = "nil")
    /\ (last.op \in {"RemoveForce", "RemoveAutoRemove", "Delete"} /\ last.a \notin pre.nodes) =>
          (G = pre)

\* RemoveAutoRemove ran on a node that has both a dependent and a
\* dependency, so both loops called Undepend, and returned normally.
C25_Witness ==
    /\ last.op = "RemoveAutoRemove"
    /\ Lookup(pre.dependents, last.a) # {}
    /\ Lookup(pre.dependencies, last.a) # {}
    /\ last.ret = "none"
    /\ nodes = {}

\* C22: RemoveAutoRemove(target) on a graph containing target removes exactly
\* the least set R with target in R, every direct dependent of a member in R,
\* and every direct dependency of a member all of whose direct dependents are
\* in R; the nodes outside R and the edges between them are unchanged.  On
\* the graph b->a, c->a, d->c, y->x, 1->0 this leaves {a,b,x,y,0,1} after
\* removing d, {0,1} after removing a and x, and the empty graph after
\* removing a, x and 1.
C22_AutoRemoveClosure ==
    /\ (last.op = "RemoveAutoRemove" /\ last.a \in pre.nodes) =>
          /\ nodes = pre.nodes \ AutoRemoveClosure(pre, {last.a})
          /\ G = Without(pre, AutoRemoveClosure(pre, {last.a}))
    /\ (last.op = "initTestGraph") =>
          /\ last.ret = "nil"
          /\ G = Graph({TestNode.a, TestNode.b, TestNode.c, TestNode.d, TestNode.x,
                        TestNode.y, TestNode.zero, TestNode.one},
                       IndexOf(Inverse(valids)), IndexOf(valids))
    /\ (last.op = "testAutoRemoveNg") =>
          /\ last.ret = "none"
          /\ G = Without(pre, pre.nodes \ nodes)
          /\ (last.set.set = {TestNode.d}) =>
                nodes = {TestNode.a, TestNode.b, TestNode.x, TestNode.y,
                         TestNode.zero, TestNode.one}
          /\ (last.set.set = {TestNode.a, TestNode.x}) =>
                nodes = {TestNode.zero, TestNode.one}
          /\ (last.set.set = {TestNode.a, TestNode.x, TestNode.one}) => (G = New)

\* Removing d from the test graph took c along, the dependency that only d
\* depended on, and kept a, which b still depends on.
C22_Witness ==
    /\ last.op = "testAutoRemoveNg"
    /\ last.set.set = {TestNode.d}
    /\ TestNode.c \in pre.nodes
    /\ TestNode.c \notin nodes
    /\ TestNode.a \in nodes

\* C24: for every reachable graph, RemoveAutoRemove called on each member of
\* L = Leaves(), L computed once, in any order, leaves the node set and both
\* indices without entries, and AssertRelationships passes after each call.
C24_AutoRemoveLeaves ==
    (last.op = "testAutoRemoveLeaves") =>
        /\ last.ret = "none"
        /\ nodes = {}
        /\ DOMAIN dependencies = {}
        /\ DOMAIN dependents = {}
        /\ \A r \in testAutoRemoveNg(pre, Leaves(pre)) :
              r.panic = "none" /\ r.g = New

\* The loop ran on a graph with two leaves and a node that is not a leaf.
C24_Witness ==
    /\ last.op = "testAutoRemoveLeaves"
    /\ Cardinality(Leaves(pre)) >= 2
    /\ Leaves(pre) # pre.nodes
    /\ nodes = {}

\* C28: for every set E of edges (x, y), x # y, whose directed graph is
\* acyclic, calling Depend once per edge of E on a new graph succeeds for
\* every edge under every ordering of E, and all orderings produce the same
\* node set and the same two indices.
C28_ArbitraryOrder ==
    (last.op = "addValidDependencies" /\ AcyclicRel(last.set.set)) =>
        /\ last.ret = "nil"
        /\ G = Graph({e[1] : e \in last.set.set} \cup {e[2] : e \in last.set.set},
                     IndexOf(Inverse(last.set.set)), IndexOf(last.set.set))
        /\ \A order \in Perms(last.set.set) :
              addValidDependencies(New, order) = {[g |-> G, err |-> "nil"]}

\* Three edges forming a chain with a shortcut were added, in one of their
\* six orders.
C28_Witness ==
    /\ last.op = "addValidDependencies"
    /\ last.ret = "nil"
    /\ Cardinality(last.set.set) = 3
    /\ \E n \in nodes : Cardinality(Lookup(dependencies, n)) = 2
    /\ \E n \in nodes : Cardinality(Lookup(dependents, n)) = 2

\* C29 as stated: in the README walk-through Layers() returns
\* [{0,a},{b,x},{c},{d}] after Depend(b,a), Depend(c,b), Depend(d,c),
\* Depend(x,0), and the four layers [{0,a,b},{x},{c},{d}] after a further
\* Undepend(b,a).
C29_ReadmeLayersAsStated ==
    /\ (last.op = "README" /\ last.a = 6) =>
          last.layers = << {TestNode.zero, TestNode.a}, {TestNode.b, TestNode.x},
                           {TestNode.c}, {TestNode.d} >>
    /\ (last.op = "README" /\ last.a = 8) =>
          last.layers = << {TestNode.zero, TestNode.a, TestNode.b}, {TestNode.x},
                           {TestNode.c}, {TestNode.d} >>

-----------------------------------------------------------------------------
(* Clone and the accessors *)

\* C26: Clone() returns a graph whose node set and both indices are equal in
\* content to the source's at the time of the call, so the clone satisfies
\* each structural invariant (containment, symmetry, no self-edge,
\* acyclicity, no empty entries) if and only if the source does.
C26_CloneEqual ==
    (last.op = "Clone") =>
        /\ OtherView(other) = G
        /\ ContainmentOf(OtherView(other)) <=> ContainmentOf(G)
        /\ SymmetryOf(OtherView(other)) <=> SymmetryOf(G)
        /\ NoSelfEdgeOf(OtherView(other)) <=> NoSelfEdgeOf(G)
        /\ AcyclicityOf(OtherView(other)) <=> AcyclicityOf(G)
        /\ NoEmptyEntryOf(OtherView(other)) <=> NoEmptyEntryOf(G)

\* Clone was called on a graph whose indices are not inverses of each other
\* any more, and the clone has edges in both of its indices.
C26_Witness ==
    /\ last.op = "Clone"
    /\ ~SymmetryOf(G)
    /\ ~SymmetryOf(OtherView(other))
    /\ DOMAIN other.dependents # {}
    /\ DOMAIN other.dependencies # {}

\* C27: after c = g.Clone(), every mutating operation on c leaves the node
\* set and the indices of g unchanged, and every mutating operation on g
\* leaves c unchanged, whatever calls on either came before.
C27_CloneIndependent ==
    (other.kind = "graph") =>
        /\ (other.side = "clone") => (G = pre)
        /\ (other.side = "graph") => (OtherView(other) = other.was)
        /\ \A k \in DOMAIN other.dependents : ~other.dependents[k].shared
        /\ \A k \in DOMAIN other.dependencies : ~other.dependencies[k].shared

\* The second call after Clone was an Undepend on the clone that deleted a
\* member from a Set with two members, in place; the graph still has both.
C27_Witness ==
    /\ other.kind = "graph"
    /\ other.side = "clone"
    /\ other.steps = 2
    /\ last.op = "Undepend"
    /\ last.ret = "nil"
    /\ Cardinality(Lookup(other.was.dependents, last.b)) >= 2
    /\ Cardinality(Lookup(dependents, last.b)) >= 2
    /\ G # OtherView(other)

\* C30 as stated: what GraphDependents, GraphDependencies, DependentsDirect
\* and DependenciesDirect return are copies: a write to a returned value,
\* inner Sets included, never changes the indices of the graph, and a later
\* mutation of the graph never changes a value returned earlier.
C30_AccessorsCopyAsStated ==
    (other.kind \in {"edges", "set"}) =>
        /\ (other.side = "returned") => (G = pre)
        /\ (other.side = "graph") => (OtherView(other) = other.was)

-----------------------------------------------------------------------------
(* AssertRelationships and Realloc *)

\* C31: AssertRelationships, on any triple of node set and indices, panics
\* if and only if an index key or a member of an index Set is missing from
\* the node set or the two indices are not inverses of each other; it leaves
\* the graph as it was; and it does not panic on a graph built from New()
\* through the public operations.
C31_AssertRelationships ==
    (last.op = "AssertRelationships") =>
        /\ (last.ret # "none") <=> (~ContainmentOf(G) \/ ~SymmetryOf(G))
        /\ G = pre
        /\ (other.kind = "none") => (last.ret = "none")

\* AssertRelationships panicked in its second loop on a struct literal whose
\* keys and members are all nodes: an edge of dependencies is missing from
\* dependents.
C31_Witness ==
    /\ last.op = "AssertRelationships"
    /\ other.kind = "literal"
    /\ last.ret = "dangling child"
    /\ ContainmentOf(G)
    /\ ~SymmetryOf(G)
    /\ EdgesOf(dependents) \subseteq Inverse(EdgesOf(dependencies))

\* C32: Realloc() leaves the node set and both indices with the content they
\* had, so Dependencies, Dependents, DependsOn, Leaves and Layers answer as
\* before the call, and a value returned earlier keeps its content.
C32_ReallocNoOp ==
    (last.op = "Realloc") =>
        /\ G = pre
        /\ OtherView(other) = other.was
        /\ \A n \in Nodes : Dependencies(G, n) = Dependencies(pre, n)
        /\ \A n \in Nodes : Dependents(G, n) = Dependents(pre, n)
        /\ \A n \in Nodes, m \in Nodes : DependsOn(G, n, m) = DependsOn(pre, n, m)
        /\ Leaves(G) = Leaves(pre)
        /\ Layers(G).layers = Layers(pre).layers

\* Realloc ran on a graph with an edge while the caller held an Edges map
\* returned by GraphDependents; the map still has its entries and none of
\* its Sets is the graph's any more.
C32_Witness ==
    /\ last.op = "Realloc"
    /\ other.kind = "edges"
    /\ other.from = "GraphDependents"
    /\ other.side = "graph"
    /\ DOMAIN other.dependents # {}
    /\ \A k \in DOMAIN other.dependents : ~other.dependents[k].shared
    /\ OtherView(other).dependents = dependents

-----------------------------------------------------------------------------
(* Layers, continued *)

\* C33: every layer returned by Layers() is maximal: the first layer is
\* Leaves(), every node of a later layer has a direct dependency in the layer
\* just before it, and the index of a node's layer (counted from 0) is the
\* number of edges on its longest chain of direct dependencies.
C33_LayersMaximal ==
    (last.op = "Layers" /\ AcyclicityOf(pre)) =>
        /\ (pre.nodes # {}) => (Len(last.layers) > 0 /\ last.layers[1] = Leaves(pre))
        /\ \A i \in 2..Len(last.layers) : \A n \in last.layers[i] :
              Lookup(pre.dependencies, n) \cap last.layers[i - 1] # {}
        /\ \A i \in 1..Len(last.layers) : \A n \in last.layers[i] :
              LongestChain(pre, n) = i - 1

\* Layers returned three layers, and a node of the third one also depends
\* directly on a leaf: its longest chain places it, not its shortest.
C33_Witness ==
    /\ last.op = "Layers"
    /\ Len(last.layers) = 3
    /\ \E n \in last.layers[3] : Lookup(pre.dependencies, n) \cap last.layers[1] # {}

-----------------------------------------------------------------------------
(* Cascading removal, continued *)

\* C34: RemoveAutoRemove(target) leaves no node orphaned: a node that is
\* still in the graph after the call and had a direct dependent before it
\* has a direct dependent after it.
C34_NoOrphan ==
    (last.op = "RemoveAutoRemove" /\ last.ret = "none") =>
        \A n \in nodes :
            (Lookup(pre.dependents, n) # {}) => (Lookup(dependents, n) # {})

\* RemoveAutoRemove removed one of two dependents of a node; the node is
\* still there with the other one.
C34_Witness ==
    /\ last.op = "RemoveAutoRemove"
    /\ last.ret = "none"
    /\ \E n \in nodes :
          /\ last.a \in Lookup(pre.dependents, n)
          /\ Lookup(dependents, n) # {}
          /\ Lookup(dependents, n) = Lookup(pre.dependents, n) \ {last.a}

\* C35: RemoveForce(target) leaves the graph that Delete leaves when it is
\* called on target and on every member of Dependents(target), in any order;
\* and the round of a node that was dequeued before changes nothing.
C35_ForceAsDeletes ==
    (last.op = "RemoveForce" /\ last.ret = "none") =>
        /\ \A order \in Perms({last.a} \cup Dependents(pre, last.a).set) :
              deleteAll(pre, order) = G
        /\ \A run \in forceRuns(pre, <<last.a>>) :
              \A i \in 1..Len(run) :
                  (\E j \in 1..(i - 1) : run[j].current = run[i].current) =>
                      (run[i].after = run[i].before /\ run[i].panic = "none")
        /\ \E run \in forceRuns(pre, <<last.a>>) :
              Len(run) > 0 /\ run[Len(run)].after = G

\* RemoveForce changed the graph in a run of its loop that dequeued the same
\* node twice.
C35_Witness ==
    /\ last.op = "RemoveForce"
    /\ last.ret = "none"
    /\ G # pre
    /\ Cardinality(Dependents(pre, last.a).set) = 2
    /\ \E run \in forceRuns(pre, <<last.a>>) :
          \E i \in 1..Len(run) : \E j \in 1..(i - 1) : run[j].current = run[i].current

-----------------------------------------------------------------------------
(* Termination *)

\* C36: Layers() terminates on every graph built through the public
\* operations: a graph or copy with a node has a leaf, so every round removes
\* a node, and a call that has started returns; on the empty graph it returns
\* the empty sequence.
C36_LayersTerminates ==
    /\ [](nodes # {} => Leaves(G) # {})
    /\ [](InLoop("Layers") =>
            /\ other.copied.nodes # {}
            /\ Leaves(other.copied) # {}
            /\ Cardinality(other.copied.nodes) + Len(other.layers)
                   <= Cardinality(other.was.nodes))
    /\ []((last.op = "Layers" /\ pre.nodes = {}) => last.layers = <<>>)
    /\ (InLoop("Layers") ~> (other.kind = "none" /\ last.op = "Layers"))

\* A call of Layers returned after three rounds.
C36_Witness ==
    /\ other.kind = "none"
    /\ last.op = "Layers"
    /\ last.ret = "nil"
    /\ Len(last.layers) = 3
    /\ pre = G

\* C37: the queue loops of RemoveForce and RemoveAutoRemove terminate on
\* every graph built through the public operations, for every target: a call
\* that has started returns, also when a node is in the queue several times.
C37_QueueLoopsTerminate ==
    /\ (InLoop("RemoveForce") ~>
           (other.kind = "none" /\ last.op = "RemoveForce" /\ last.ret = "none"))
    /\ (InLoop("RemoveAutoRemove") ~>
           (other.kind = "none" /\ last.op = "RemoveAutoRemove" /\ last.ret = "none"))

\* A queue loop is running with the same node twice in its queue.
C37_Witness ==
    /\ other.kind = "loop"
    /\ other.from \in {"RemoveForce", "RemoveAutoRemove"}
    /\ \E i \in 1..Len(other.queue) : \E j \in 1..Len(other.queue) :
          i # j /\ other.queue[i] = other.queue[j]

-----------------------------------------------------------------------------
(* Depend and Undepend, continued *)

\* C38: a redundant direct edge does not change the layering: when x already
\* depends on a, directly or not, Depend(x, a) succeeds and Layers() returns
\* the same sequence of sets after the call as before it.
C38_RedundantEdge ==
    (last.op = "Depend" /\ DependsOn(pre, last.a, last.b)) =>
        /\ last.ret = "nil"
        /\ Layers(G).layers = Layers(pre).layers
        /\ Layers(G).terminates

\* Depend added a direct edge between two nodes that were connected through
\* a third one only; the graph has three layers before and after.
C38_Witness ==
    /\ last.op = "Depend"
    /\ last.ret = "nil"
    /\ DependsOn(pre, last.a, last.b)
    /\ ~DependsOnDirectly(pre, last.a, last.b)
    /\ DependsOnDirectly(G, last.a, last.b)
    /\ Len(Layers(G).layers) = 3

\* C39: when x and y are both nodes already, x does not depend directly on
\* y and Depend(x, y) succeeds, a following Undepend(x, y) leaves the node
\* set and both indices exactly as they were before the Depend, with no
\* empty entry left in an index.
C39_RoundTripRestores ==
    (/\ rt.on
     /\ last.op = "Undepend"
     /\ {last.a, last.b} \subseteq rt.base.nodes
     /\ ~DependsOnDirectly(rt.base, last.a, last.b)) =>
        /\ last.ret = "nil"
        /\ G = rt.base
        /\ NoEmptyEntryOf(G)

\* The round trip ran between two nodes of the graph: the dependency had
\* another dependent before, whose Set is as it was, and the dependent had no
\* dependency, and has no entry again.
C39_Witness ==
    /\ rt.on
    /\ last.op = "Undepend"
    /\ last.ret = "nil"
    /\ {last.a, last.b} \subseteq rt.base.nodes
    /\ ~DependsOnDirectly(rt.base, last.a, last.b)
    /\ Lookup(rt.base.dependents, last.b) # {}
    /\ last.a \notin DOMAIN rt.base.dependencies
    /\ last.a \in DOMAIN pre.dependencies
    /\ G = rt.base

====
